---- MODULE Spec2Model ----
(***************************************************************************)
(* State-machine model of the HyperEVM monitor (csylvainn/evm-monitor):    *)
(* the RPC manager (endpoint tests, rotation, calls with fallback), the    *)
(* SQLite checkpoint row, and the monitoring loop that ingests blocks in   *)
(* batches.                                                                *)
(*                                                                         *)
(* The specifications share the variables:                                 *)
(*   Spec       the monitoring loop (monitor.py, block_processor.py,       *)
(*              database.py) with crashes and restarts;                    *)
(*   SpecRpc    the RPC manager alone, driven by arbitrary callers         *)
(*              (rpc_manager.py: switch_rpc, rpc_call);                    *)
(*   SpecRotate switch_rpc called over time, with the history of the last  *)
(*              two calls;                                                 *)
(*   SpecSelect find_best_rpc as a function of the endpoint list and the   *)
(*              test results.                                              *)
(* Further specifications, each introduced where it is defined, take one   *)
(* component at a time: SpecCall, SpecBatch, SpecLive, SpecConc,           *)
(* SpecUnknown, SpecRetry, SpecLookup, SpecScan, SpecActivity, SpecCycle,  *)
(* SpecDetect, SpecRestart.                                                *)
(***************************************************************************)
EXTENDS Integers, Sequences, FiniteSets, TLC

(***************************************************************************)
(* Configuration (config/settings.py)                                      *)
(***************************************************************************)

\* Python's None for an endpoint URL / name.
None == "None"

\* Python's None (SQL NULL) for a block number; get_latest_block also
\* answers 0 when the call fails, and the code tests both with "if not x".
NoBlock == 0

\* NULL in a TIMESTAMP column
NoTime == 0

RPC_ENDPOINTS ==
    << [name |-> "dRPC",                 url |-> "https://hyperliquid.drpc.org",     priority |-> 1],
       [name |-> "1RPC",                 url |-> "https://1rpc.io/hyperliquid",      priority |-> 2],
       [name |-> "Hyperliquid Official", url |-> "https://rpc.hyperliquid.xyz/evm",  priority |-> 3] >>

RPC_TEST_TIMEOUT == 10

RPC_MAX_FAILURES == 3

RPC_RETEST_INTERVAL == 300

\* Blocks per batch.  The program's value is 25; the model scales it down so
\* that several batches fit below MaxHead.
BATCH_SIZE == 2
SCAN_BATCH_SIZE == 2
RETRY_DELAY == 3600
RETRY_ATTEMPTS == 2

\* Cycles between two maintenances.  The program's value is 20; the model
\* scales it down.
UPDATE_UNKNOWN_INTERVAL == 2

Urls == { RPC_ENDPOINTS[i].url : i \in 1..Len(RPC_ENDPOINTS) }

(***************************************************************************)
(* Bounds of the model                                                     *)
(***************************************************************************)

\* Highest block number the chain reaches.
MaxHead == 4

\* Largest latency (in coarse units) a successful endpoint test measures.
MaxLatency == 2

\* Largest priority drawn for an endpoint in SpecSelect.
MaxPriority == 2

\* Largest value an endpoint's failure counter is allowed to reach.
MaxFailures == 4

\* The clock runs from RPC_RETEST_INTERVAL up to MaxTime epochs of it.
MaxEpochs == 1

\* Process crashes (kill + restart) along one behaviour.
MaxCrashes == 1

\* By how many blocks an endpoint's reported head may lag the chain head.
MaxLag == 1

\* How many times a provider changes its behaviour.
MaxNetChanges == 1

\* Calls made to classify the addresses of one batch in SpecLive.
MaxProbes == 1

\* The block at which a frozen provider stopped following the chain.
FrozenHead == 1
MaxTasks == 3
MaxAccounts == 3
MaxLimit == 2
MaxActivityBlock == 2
MaxHours == 4
MaxActivityHead == 8

\* Transactions of a block given to extract_addresses_from_block.
MaxTxs == 2

\* Largest value the cycle counter is allowed to reach.
MaxCounter == 4

\* Calls of rpc_call handle_new_blocks and the maintenance make in a cycle.
MaxCycleCalls == 1

\* Highest head an endpoint reports in SpecCycle.
MaxCycleHead == 2

\* How many times the clock of SpecCycle passes a retest interval.
MaxCycleEpochs == 2

\* Seconds between two blocks of the modelled chain.
BlockSeconds == 60

VARIABLES
    \* ---- environment
    head,            \* chain head
    now,             \* time.time()
    \* ---- RPCManager
    current_rpc,     \* self.current_rpc (url or None)
    rpc_failures,    \* self.rpc_failures (url -> count, 0 when absent)
    last_rpc_test,   \* self.last_rpc_test
    \* ---- Database
    checkpoint,      \* the realtime_checkpoint row id = 1
    activity,        \* wallet_activity_stats: slot -> counts
    \* ---- HyperEVMMonitor
    pc,              \* position of the run() coroutine
    current_block,   \* self.current_block
    latest_block,    \* handle_new_blocks' latest_block
    start_block,     \* handle_new_blocks' start_block
    end_block,       \* handle_new_blocks' end_block
    blocks_data,     \* process_block_batch's blocks_data (gather's results)
    \* ---- history (not program state)
    persisted,       \* fetched blocks whose addresses went through _process_new_addresses
    skipped,         \* blocks never persisted whose fetch failed in a batch that went on
    steps,           \* persistence steps the current batch has completed
    batches,         \* ranges handle_new_blocks has completed in this call
    entry_block,     \* self.current_block when handle_new_blocks was entered
    first_block,     \* block of the first checkpoint ever saved
    crashes,         \* number of crashes so far
    resumed,         \* TRUE from a restart until its first batch starts
    call,            \* the rpc_call in progress: position, attempt, result
    streak,          \* url -> transport failures in a row of requests sent to it
    armed,           \* a streak reached the threshold and no full test ran since
    switch_log,      \* the last consecutive switch_rpc calls made by a caller
    call_log,        \* what the rpc_call in progress has done so far
    \* ---- SpecBatch
    wallets,         \* table wallets: address -> type and last activity block
    tokens,          \* table tokens: address -> status
    batch_to,        \* end_block of the last process_block_batch
    last_batch,      \* what the last process_block_batch saw and did
    \* ---- SpecLive
    net,             \* url -> how the endpoint behaves
    net_changes,     \* how many times an endpoint has changed its behaviour
    probe_calls,     \* calls made so far to classify the batch's addresses
    \* ---- SpecConc
    tasks,           \* the rpc_call coroutines gathered by _fetch_blocks_parallel
    orphan_failures, \* self.rpc_failures[None]
    rotated,         \* a full test of a gathered call has completed
    \* ---- SpecUnknown, SpecRetry
    last_maint,      \* what the last maintenance task saw and did
    failed_addresses, \* retry_failed_tokens' failed_addresses still to retry
    probed_at,       \* token -> time of its last retry_failed_token
    \* ---- SpecLookup
    lookup,          \* one get_single_balance: its token, the answers, its result
    \* ---- SpecScan
    holdings,        \* table wallet_tokens: wallet -> token -> balance
    scan_progress,   \* the row of table wallet_scan_progress
    scan,            \* scan_all_wallets_simple: position, lists, self.stats
    last_scan,       \* what the last step of the scan saw and did
    \* ---- SpecActivity
    last_activity,   \* what the last save of activity slots saw
    \* ---- SpecCycle
    update_counter,  \* self.update_counter
    cycle,           \* the monitoring_cycle in progress: position and what it did
    completed,       \* cycles run to their end since maintenance last returned
    \* ---- SpecDetect
    job,             \* the call under study: the function and its arguments
    given,           \* what the call returned and which calls it made
    \* ---- SpecSelect
    sel_endpoints,   \* endpoint list given to find_best_rpc
    sel_tests,       \* test result of each endpoint
    sel_best         \* what find_best_rpc returned

vars == << head, now, current_rpc, rpc_failures, last_rpc_test, checkpoint,
           activity, pc, current_block, latest_block, start_block, end_block,
           blocks_data, persisted, skipped, steps, batches, entry_block, first_block,
           crashes, resumed, call, streak, armed, switch_log, call_log,
           wallets, tokens, batch_to, last_batch, net, net_changes, probe_calls,
           tasks, orphan_failures, rotated, last_maint, failed_addresses, probed_at,
           lookup, holdings, scan_progress, scan, last_scan, last_activity,
           update_counter, cycle, completed, job, given,
           sel_endpoints, sel_tests, sel_best >>

envVars == << head, now >>
rpcVars == << current_rpc, rpc_failures, last_rpc_test >>
monVars == << pc, current_block, latest_block, start_block, end_block, blocks_data >>
histVars == << persisted, skipped, steps, batches, entry_block, first_block, crashes, resumed >>
selVars == << sel_endpoints, sel_tests, sel_best >>
dbVars == << checkpoint, activity >>
callVars == << call, streak, armed, switch_log >>
logVars == << call_log >>
procVars == << wallets, tokens, batch_to, last_batch >>
liveVars == << net, net_changes, probe_calls >>
concVars == << tasks, orphan_failures, rotated >>
maintVars == << last_maint, failed_addresses, probed_at >>
scanVars == << lookup, holdings, scan_progress, scan, last_scan >>
statVars == << last_activity >>
cycleVars == << update_counter, cycle, completed >>
detVars == << job, given >>
extraVars == << concVars, maintVars, scanVars, statVars, cycleVars, detVars >>
auxVars == << logVars, procVars, liveVars, extraVars >>

(***************************************************************************)
(* RPCManager.test_rpc_endpoint and find_best_rpc                          *)
(***************************************************************************)

\* The result record test_rpc_endpoint returns for an endpoint that answers
\* the eth_blockNumber test after `latency`, or that does not (HTTP error,
\* provider error, timeout, exception): success and latency.
TestRpcEndpoint(answers, latency) ==
    IF answers
    THEN [success |-> TRUE, latency |-> latency]
    ELSE [success |-> FALSE, latency |-> RPC_TEST_TIMEOUT]

\* A key that ignores latency.
KeyLessPriorityOnly(x, y) ==
    x.priority < y.priority

\* The key of find_best_rpc's min(): (priority, latency), compared as
\* Python compares tuples.
KeyLess(x, y) ==
    \/ x.priority < y.priority
    \/ x.priority = y.priority /\ x.latency < y.latency

\* Python's min(seq, key=...): the first element with the smallest key.
RECURSIVE MinByKey(_, _)
MinByKey(seq, best) ==
    IF seq = << >> THEN best
    ELSE MinByKey(Tail(seq), IF KeyLess(Head(seq), best) THEN Head(seq) ELSE best)

\* best_rpc when no endpoint works.
NoRpc == [success |-> FALSE, latency |-> 0, name |-> None, url |-> None, priority |-> 0]

\* result.update(rpc_info): the test result completed with the endpoint's fields.
Results(endpoints, tests) ==
    [ i \in 1..Len(endpoints) |->
        [success |-> tests[i].success, latency |-> tests[i].latency,
         name |-> endpoints[i].name, url |-> endpoints[i].url,
         priority |-> endpoints[i].priority] ]

\* find_best_rpc: test every endpoint, keep the working ones, take the minimum.
FindBestRpc(endpoints, tests) ==
    LET working_rpcs == SelectSeq(Results(endpoints, tests), LAMBDA r : r.success)
    IN  IF working_rpcs = << >> THEN NoRpc
        ELSE MinByKey(Tail(working_rpcs), Head(working_rpcs))

(***************************************************************************)
(* Database: the realtime_checkpoint row (core/database.py)                *)
(***************************************************************************)

\* The table before any row was written.
NoCheckpoint == [row |-> FALSE, current_block |-> NoBlock, current_rpc_url |-> None]

\* get_checkpoint: (current_block, current_rpc_url), or (None, None) without a row.
GetCheckpoint(ck) ==
    IF ck.row THEN << ck.current_block, ck.current_rpc_url >> ELSE << NoBlock, None >>

\* A save_checkpoint that replaces the whole row whether it is given an
\* rpc_url or not.
SaveCheckpointReplace(ck, block_number, rpc_url) ==
    [row |-> TRUE, current_block |-> block_number, current_rpc_url |-> rpc_url]

\* save_checkpoint: with an rpc_url INSERT OR REPLACE the whole row; without
\* one UPDATE the block of the row id = 1, which changes nothing when the
\* row does not exist.
SaveCheckpoint(ck, block_number, rpc_url) ==
    IF rpc_url # None
    THEN [row |-> TRUE, current_block |-> block_number, current_rpc_url |-> rpc_url]
    ELSE IF ck.row THEN [ck EXCEPT !.current_block = block_number] ELSE ck

\* A save_rpc_choice whose INSERT OR REPLACE replaces the row.
SaveRpcChoiceReplace(ck, rpc_url) ==
    [row |-> TRUE, current_block |-> NoBlock, current_rpc_url |-> rpc_url]

\* save_rpc_choice: INSERT ... ON CONFLICT(id) DO UPDATE SET current_rpc_url:
\* a new row has a NULL block, an existing row keeps its block.
SaveRpcChoice(ck, rpc_url) ==
    IF ck.row
    THEN [ck EXCEPT !.current_rpc_url = rpc_url]
    ELSE [row |-> TRUE, current_block |-> NoBlock, current_rpc_url |-> rpc_url]

(***************************************************************************)
(* RPCManager.switch_rpc (core/rpc_manager.py)                             *)
(***************************************************************************)

\* The test results of one find_best_rpc round in which exactly the
\* endpoints of reach answer.
TestAll(reach) ==
    [ i \in 1..Len(RPC_ENDPOINTS) |->
        TestRpcEndpoint(RPC_ENDPOINTS[i].url \in reach, MaxLatency) ]

\* A switch_rpc that keeps an active endpoint instead of taking the best one.
SwitchRpcKeepCurrent(cur, last, ck, force_retest, reach, t) ==
    IF ~force_retest /\ cur # None /\ (t - last) < RPC_RETEST_INTERVAL
    THEN [ret |-> TRUE, tested |-> FALSE, cur |-> cur, last |-> last, ck |-> ck]
    ELSE LET best_rpc == FindBestRpc(RPC_ENDPOINTS, TestAll(reach))
         IN  IF best_rpc.url = None
             THEN [ret |-> FALSE, tested |-> TRUE, cur |-> cur, last |-> last, ck |-> ck]
             ELSE IF cur = None
                  THEN [ret |-> TRUE, tested |-> TRUE, cur |-> best_rpc.url, last |-> t,
                        ck |-> SaveRpcChoice(ck, best_rpc.url)]
                  ELSE [ret |-> TRUE, tested |-> TRUE, cur |-> cur, last |-> t, ck |-> ck]

\* A switch_rpc that does not save its choice.
SwitchRpcUnsaved(cur, last, ck, force_retest, reach, t) ==
    IF ~force_retest /\ cur # None /\ (t - last) < RPC_RETEST_INTERVAL
    THEN [ret |-> TRUE, tested |-> FALSE, cur |-> cur, last |-> last, ck |-> ck]
    ELSE LET best_rpc == FindBestRpc(RPC_ENDPOINTS, TestAll(reach))
         IN  IF best_rpc.url = None
             THEN [ret |-> FALSE, tested |-> TRUE, cur |-> cur, last |-> last, ck |-> ck]
             ELSE [ret |-> TRUE, tested |-> TRUE, cur |-> best_rpc.url, last |-> t,
                   ck |-> ck]

\* A switch_rpc that forgets to refresh last_rpc_test.
SwitchRpcNoRefresh(cur, last, ck, force_retest, reach, t) ==
    IF ~force_retest /\ cur # None /\ (t - last) < RPC_RETEST_INTERVAL
    THEN [ret |-> TRUE, tested |-> FALSE, cur |-> cur, last |-> last, ck |-> ck]
    ELSE LET best_rpc == FindBestRpc(RPC_ENDPOINTS, TestAll(reach))
         IN  IF best_rpc.url = None
             THEN [ret |-> FALSE, tested |-> TRUE, cur |-> cur, last |-> last, ck |-> ck]
             ELSE [ret |-> TRUE, tested |-> TRUE, cur |-> best_rpc.url, last |-> last,
                   ck |-> IF cur = None \/ cur # best_rpc.url
                          THEN SaveRpcChoice(ck, best_rpc.url) ELSE ck]

\* switch_rpc(force_retest) called at time t on the manager state
\* (cur, last) and the checkpoint row ck, when exactly the endpoints of
\* reach answer the test.  ret is the value returned, tested whether
\* find_best_rpc ran.
SwitchRpc(cur, last, ck, force_retest, reach, t) ==
    IF ~force_retest /\ cur # None /\ (t - last) < RPC_RETEST_INTERVAL
    THEN [ret |-> TRUE, tested |-> FALSE, cur |-> cur, last |-> last, ck |-> ck]
    ELSE LET best_rpc == FindBestRpc(RPC_ENDPOINTS, TestAll(reach))
         IN  IF best_rpc.url = None
             THEN [ret |-> FALSE, tested |-> TRUE, cur |-> cur, last |-> last, ck |-> ck]
             ELSE [ret |-> TRUE, tested |-> TRUE, cur |-> best_rpc.url, last |-> t,
                   ck |-> IF cur = None \/ cur # best_rpc.url
                          THEN SaveRpcChoice(ck, best_rpc.url) ELSE ck]

\* should_retest_rpc
ShouldRetestRpc(last, t) ==
    t - last > RPC_RETEST_INTERVAL

(***************************************************************************)
(* RPCManager.rpc_call, one step per suspension point                      *)
(***************************************************************************)

\* What a posted request comes back as: a result, an exception (transport
\* error, timeout, HTTP status other than 200), the provider's "3000
\* archived blocks" quota error, or another provider error.
Outcomes == {"ok", "exception", "quota", "error"}

NoCall == [pc |-> "idle", attempt |-> 0, ret |-> FALSE]

\* A caller enters rpc_call: the first pass of "for attempt in range(2)".
CallStart ==
    /\ call.pc = "idle"
    /\ call' = [pc |-> "top", attempt |-> 0, ret |-> FALSE]

\* The top of the attempt loop going on to the request whatever the forced
\* rotation returned.
CallTopIgnoresFailure(reach) ==
    /\ call.pc = "top"
    /\ IF call.attempt >= 2
       THEN /\ call' = [call EXCEPT !.pc = "done", !.ret = FALSE]
            /\ UNCHANGED << current_rpc, last_rpc_test, checkpoint, armed >>
       ELSE IF current_rpc = None
       THEN LET sw == SwitchRpc(current_rpc, last_rpc_test, checkpoint, TRUE, reach, now)
            IN  /\ current_rpc' = sw.cur
                /\ last_rpc_test' = sw.last
                /\ checkpoint' = sw.ck
                /\ armed' = FALSE
                /\ call' = [call EXCEPT !.pc = "post"]
       ELSE /\ call' = [call EXCEPT !.pc = "post"]
            /\ UNCHANGED << current_rpc, last_rpc_test, checkpoint, armed >>
    /\ UNCHANGED << rpc_failures, streak >>

\* Top of the attempt loop: leave with None after two attempts; without an
\* active endpoint force a rotation first and leave with None if it fails.
CallTop(reach) ==
    /\ call.pc = "top"
    /\ IF call.attempt >= 2
       THEN /\ call' = [call EXCEPT !.pc = "done", !.ret = FALSE]
            /\ UNCHANGED << current_rpc, last_rpc_test, checkpoint, armed >>
       ELSE IF current_rpc = None
       THEN LET sw == SwitchRpc(current_rpc, last_rpc_test, checkpoint, TRUE, reach, now)
            IN  /\ current_rpc' = sw.cur
                /\ last_rpc_test' = sw.last
                /\ checkpoint' = sw.ck
                /\ armed' = FALSE
                /\ call' = IF sw.ret THEN [call EXCEPT !.pc = "post"]
                           ELSE [call EXCEPT !.pc = "done", !.ret = FALSE]
       ELSE /\ call' = [call EXCEPT !.pc = "post"]
            /\ UNCHANGED << current_rpc, last_rpc_test, checkpoint, armed >>
    /\ UNCHANGED << rpc_failures, streak >>

\* The failure accounting of the except branch with a threshold test that
\* is off by one.
AccountFailureLate(failures, url) ==
    LET count == failures[url] + 1
    IN  [failures |-> [failures EXCEPT ![url] = count],
         cur |-> IF count > RPC_MAX_FAILURES THEN None ELSE url]

\* The except branch: count the failure against the active endpoint and
\* clear the active endpoint once the count reaches RPC_MAX_FAILURES.
AccountFailure(failures, url) ==
    LET count == failures[url] + 1
    IN  [failures |-> [failures EXCEPT ![url] = count],
         cur |-> IF count >= RPC_MAX_FAILURES THEN None ELSE url]

\* The handling of the answer with a provider error (other than the quota
\* error) going back to the top of the loop.
CallPostErrorRetries(outcome) ==
    /\ call.pc = "post"
    /\ current_rpc # None
    /\ outcome = "exception" => rpc_failures[current_rpc] < MaxFailures
    /\ CASE outcome = "ok" ->
              /\ rpc_failures' = [rpc_failures EXCEPT ![current_rpc] = 0]
              /\ streak' = [streak EXCEPT ![current_rpc] = 0]
              /\ call' = [call EXCEPT !.pc = "done", !.ret = TRUE]
              /\ UNCHANGED << current_rpc, armed >>
         [] outcome = "quota" ->
              /\ current_rpc' = None
              /\ call' = [call EXCEPT !.pc = "top", !.attempt = @ + 1]
              /\ UNCHANGED << rpc_failures, streak, armed >>
         [] outcome = "error" ->
              /\ call' = [call EXCEPT !.pc = "top", !.attempt = @ + 1]
              /\ UNCHANGED << current_rpc, rpc_failures, streak, armed >>
         [] outcome = "exception" ->
              LET acc == AccountFailure(rpc_failures, current_rpc)
              IN  /\ rpc_failures' = acc.failures
                  /\ current_rpc' = acc.cur
                  /\ streak' = [streak EXCEPT ![current_rpc] = @ + 1]
                  /\ armed' = (armed \/ streak[current_rpc] + 1 >= RPC_MAX_FAILURES)
                  /\ call' = IF call.attempt = 0
                             THEN [call EXCEPT !.pc = "rotate"]
                             ELSE [call EXCEPT !.pc = "top", !.attempt = @ + 1]
    /\ UNCHANGED << last_rpc_test, checkpoint >>

\* The handling of the answer with a quota error that leaves the attempt
\* number as it is.
CallPostQuotaFree(outcome) ==
    /\ call.pc = "post"
    /\ current_rpc # None
    /\ outcome = "exception" => rpc_failures[current_rpc] < MaxFailures
    /\ CASE outcome = "ok" ->
              /\ rpc_failures' = [rpc_failures EXCEPT ![current_rpc] = 0]
              /\ streak' = [streak EXCEPT ![current_rpc] = 0]
              /\ call' = [call EXCEPT !.pc = "done", !.ret = TRUE]
              /\ UNCHANGED << current_rpc, armed >>
         [] outcome = "quota" ->
              /\ current_rpc' = None
              /\ call' = [call EXCEPT !.pc = "top"]
              /\ UNCHANGED << rpc_failures, streak, armed >>
         [] outcome = "error" ->
              /\ call' = [call EXCEPT !.pc = "done", !.ret = FALSE]
              /\ UNCHANGED << current_rpc, rpc_failures, streak, armed >>
         [] outcome = "exception" ->
              LET acc == AccountFailure(rpc_failures, current_rpc)
              IN  /\ rpc_failures' = acc.failures
                  /\ current_rpc' = acc.cur
                  /\ streak' = [streak EXCEPT ![current_rpc] = @ + 1]
                  /\ armed' = (armed \/ streak[current_rpc] + 1 >= RPC_MAX_FAILURES)
                  /\ call' = IF call.attempt = 0
                             THEN [call EXCEPT !.pc = "rotate"]
                             ELSE [call EXCEPT !.pc = "top", !.attempt = @ + 1]
    /\ UNCHANGED << last_rpc_test, checkpoint >>

\* The handling of the answer with a success that leaves the failure count
\* of the endpoint as it is.
CallPostKeepsCount(outcome) ==
    /\ call.pc = "post"
    /\ current_rpc # None
    /\ outcome = "exception" => rpc_failures[current_rpc] < MaxFailures
    /\ CASE outcome = "ok" ->
              /\ streak' = [streak EXCEPT ![current_rpc] = 0]
              /\ call' = [call EXCEPT !.pc = "done", !.ret = TRUE]
              /\ UNCHANGED << current_rpc, rpc_failures, armed >>
         [] outcome = "quota" ->
              /\ current_rpc' = None
              /\ call' = [call EXCEPT !.pc = "top", !.attempt = @ + 1]
              /\ UNCHANGED << rpc_failures, streak, armed >>
         [] outcome = "error" ->
              /\ call' = [call EXCEPT !.pc = "done", !.ret = FALSE]
              /\ UNCHANGED << current_rpc, rpc_failures, streak, armed >>
         [] outcome = "exception" ->
              LET acc == AccountFailure(rpc_failures, current_rpc)
              IN  /\ rpc_failures' = acc.failures
                  /\ current_rpc' = acc.cur
                  /\ streak' = [streak EXCEPT ![current_rpc] = @ + 1]
                  /\ armed' = (armed \/ streak[current_rpc] + 1 >= RPC_MAX_FAILURES)
                  /\ call' = IF call.attempt = 0
                             THEN [call EXCEPT !.pc = "rotate"]
                             ELSE [call EXCEPT !.pc = "top", !.attempt = @ + 1]
    /\ UNCHANGED << last_rpc_test, checkpoint >>

\* The request is posted to the active endpoint and its answer handled.
CallPost(outcome) ==
    /\ call.pc = "post"
    /\ current_rpc # None
    /\ outcome = "exception" => rpc_failures[current_rpc] < MaxFailures
    /\ CASE outcome = "ok" ->
              /\ rpc_failures' = [rpc_failures EXCEPT ![current_rpc] = 0]
              /\ streak' = [streak EXCEPT ![current_rpc] = 0]
              /\ call' = [call EXCEPT !.pc = "done", !.ret = TRUE]
              /\ UNCHANGED << current_rpc, armed >>
         [] outcome = "quota" ->
              /\ current_rpc' = None
              /\ call' = [call EXCEPT !.pc = "top", !.attempt = @ + 1]
              /\ UNCHANGED << rpc_failures, streak, armed >>
         [] outcome = "error" ->
              /\ call' = [call EXCEPT !.pc = "done", !.ret = FALSE]
              /\ UNCHANGED << current_rpc, rpc_failures, streak, armed >>
         [] outcome = "exception" ->
              LET acc == AccountFailure(rpc_failures, current_rpc)
              IN  /\ rpc_failures' = acc.failures
                  /\ current_rpc' = acc.cur
                  /\ streak' = [streak EXCEPT ![current_rpc] = @ + 1]
                  /\ armed' = (armed \/ streak[current_rpc] + 1 >= RPC_MAX_FAILURES)
                  /\ call' = IF call.attempt = 0
                             THEN [call EXCEPT !.pc = "rotate"]
                             ELSE [call EXCEPT !.pc = "top", !.attempt = @ + 1]
    /\ UNCHANGED << last_rpc_test, checkpoint >>

\* After the first attempt failed: switch_rpc(force_retest=True), whatever
\* it returns, then the second pass of the loop.
CallRotate(reach) ==
    /\ call.pc = "rotate"
    /\ LET sw == SwitchRpc(current_rpc, last_rpc_test, checkpoint, TRUE, reach, now)
       IN  /\ current_rpc' = sw.cur
           /\ last_rpc_test' = sw.last
           /\ checkpoint' = sw.ck
    /\ armed' = FALSE
    /\ call' = [call EXCEPT !.pc = "top", !.attempt = @ + 1]
    /\ UNCHANGED << rpc_failures, streak >>

\* rpc_call returns to a caller that keeps nothing of the result.
CallReturn ==
    /\ call.pc = "done"
    /\ call' = NoCall
    /\ UNCHANGED << current_rpc, rpc_failures, last_rpc_test, checkpoint, streak, armed >>

\* A caller (the monitor, the scanner) calls switch_rpc(force_retest) itself.
CallSwitchRpc(force_retest, reach) ==
    /\ call.pc = "idle"
    /\ LET sw == SwitchRpc(current_rpc, last_rpc_test, checkpoint, force_retest, reach, now)
       IN  /\ current_rpc' = sw.cur
           /\ last_rpc_test' = sw.last
           /\ checkpoint' = sw.ck
           /\ armed' = (armed /\ ~sw.tested)
    /\ UNCHANGED << rpc_failures, streak, call >>

(***************************************************************************)
(* The clock                                                               *)
(***************************************************************************)

\* time.time() when the process starts: far more than a retest interval
\* after last_rpc_test = 0.
StartTime == RPC_RETEST_INTERVAL + 1

MaxTime == StartTime + MaxEpochs * RPC_RETEST_INTERVAL

\* Time passes in steps of half a retest interval.
Tick ==
    /\ now + (RPC_RETEST_INTERVAL \div 2) <= MaxTime
    /\ now' = now + (RPC_RETEST_INTERVAL \div 2)

(***************************************************************************)
(* Initial values                                                          *)
(***************************************************************************)

InitEnv ==
    /\ head = 1
    /\ now = StartTime

\* RPCManager.__init__
InitRpc ==
    /\ current_rpc = None
    /\ rpc_failures = [u \in Urls |-> 0]
    /\ last_rpc_test = 0

\* Database.setup_database on a new file
InitDb ==
    /\ checkpoint = NoCheckpoint
    /\ activity = << >>

\* HyperEVMMonitor.__init__
InitMonitor ==
    /\ pc = "boot"
    /\ current_block = NoBlock
    /\ latest_block = NoBlock
    /\ start_block = NoBlock
    /\ end_block = NoBlock
    /\ blocks_data = << >>

InitHistory ==
    /\ persisted = {}
    /\ skipped = {}
    /\ steps = {}
    /\ batches = << >>
    /\ entry_block = NoBlock
    /\ first_block = NoBlock
    /\ crashes = 0
    /\ resumed = FALSE

InitCall ==
    /\ call = NoCall
    /\ streak = [u \in Urls |-> 0]
    /\ armed = FALSE
    /\ switch_log = << >>
    /\ call_log = << >>

\* Database.setup_database on a new file: no wallet and no token.
InitProc ==
    /\ wallets = << >>
    /\ tokens = << >>
    /\ batch_to = NoBlock
    /\ last_batch = << >>

\* Every provider up and in step with the chain.
InitNet ==
    /\ net = [u \in Urls |-> "good"]
    /\ net_changes = 0
    /\ probe_calls = 0

\* No gathered call yet.
InitConc ==
    /\ tasks = << >>
    /\ orphan_failures = 0
    /\ rotated = FALSE

\* No maintenance task has run.
InitMaint ==
    /\ last_maint = << >>
    /\ failed_addresses = << >>
    /\ probed_at = << >>

\* No row in wallet_scan_progress.
NoProgress == [row |-> FALSE, total_wallets |-> 0, scanned_wallets |-> 0,
               current_wallet |-> None, status |-> "idle"]

\* SimpleSmartWalletScanner.__init__, before scan_all_wallets_simple.
NewScan == [pc |-> "idle", i |-> 0, all_wallets |-> << >>, popular_tokens |-> {},
            wallets_scanned |-> 0, tokens_found |-> 0, total_balance_checks |-> 0,
            errors |-> 0]

\* No balance lookup and no scan yet.
InitScan ==
    /\ lookup = << >>
    /\ holdings = << >>
    /\ scan_progress = NoProgress
    /\ scan = NewScan
    /\ last_scan = << >>

\* No activity slot saved yet.
InitStat == last_activity = << >>

\* No monitoring_cycle in progress.
NoCycle == [pc |-> "cycle", stale |-> FALSE, tested |-> FALSE, latest |-> NoBlock,
            calls |-> 0, counted |-> FALSE, counter |-> 0, maint |-> "none",
            ret |-> FALSE, nth |-> 0]

\* HyperEVMMonitor.__init__: update_counter = 0.
InitCycle ==
    /\ update_counter = 0
    /\ cycle = NoCycle
    /\ completed = 0

\* No call under study.
InitDet ==
    /\ job = << >>
    /\ given = << >>

InitExtra == InitConc /\ InitMaint /\ InitScan /\ InitStat /\ InitCycle /\ InitDet

InitSelect ==
    /\ sel_endpoints = RPC_ENDPOINTS
    /\ sel_tests = TestAll(Urls)
    /\ sel_best = NoRpc

(***************************************************************************)
(* SpecSelect: find_best_rpc on any endpoint list and any test results     *)
(***************************************************************************)

\* Endpoint lists: the configured names and urls with any priorities.
EndpointLists ==
    { [ i \in 1..Len(RPC_ENDPOINTS) |-> [RPC_ENDPOINTS[i] EXCEPT !.priority = p[i]] ] :
        p \in [1..Len(RPC_ENDPOINTS) -> 1..MaxPriority] }

\* What test_rpc_endpoint can return for one endpoint.
TestResults ==
    { TestRpcEndpoint(FALSE, 0) } \cup { TestRpcEndpoint(TRUE, l) : l \in 1..MaxLatency }

InitSelectAny ==
    /\ InitEnv /\ InitRpc /\ InitDb /\ InitMonitor /\ InitHistory /\ InitCall
    /\ InitProc /\ InitNet /\ InitExtra
    /\ sel_endpoints \in EndpointLists
    /\ sel_tests \in [1..Len(RPC_ENDPOINTS) -> TestResults]
    /\ sel_best = [NoRpc EXCEPT !.name = "unset"]

\* One call of find_best_rpc.
SelectBest ==
    /\ sel_best.name = "unset"
    /\ sel_best' = FindBestRpc(sel_endpoints, sel_tests)
    /\ UNCHANGED << sel_endpoints, sel_tests >>
    /\ UNCHANGED << envVars, rpcVars, dbVars, monVars, histVars, callVars, auxVars >>

NextSelect == SelectBest

SpecSelect == InitSelectAny /\ [][NextSelect]_vars

(***************************************************************************)
(* SpecRpc: rpc_call and switch_rpc under arbitrary provider answers       *)
(***************************************************************************)

InitRpcOnly ==
    /\ InitEnv /\ InitRpc /\ InitDb /\ InitMonitor /\ InitHistory /\ InitCall
    /\ InitProc /\ InitNet /\ InitExtra /\ InitSelect

RpcFrame == UNCHANGED << head, activity, monVars, histVars, selVars, auxVars >>

NextRpc ==
    \/ CallStart /\ UNCHANGED << now, rpcVars, checkpoint, streak, armed, switch_log >> /\ RpcFrame
    \/ \E reach \in SUBSET Urls : CallTop(reach) /\ UNCHANGED << now, switch_log >> /\ RpcFrame
    \/ \E outcome \in Outcomes : CallPost(outcome) /\ UNCHANGED << now, switch_log >> /\ RpcFrame
    \/ \E reach \in SUBSET Urls : CallRotate(reach) /\ UNCHANGED << now, switch_log >> /\ RpcFrame
    \/ CallReturn /\ UNCHANGED << now, switch_log >> /\ RpcFrame
    \/ \E force_retest \in BOOLEAN, reach \in SUBSET Urls :
           CallSwitchRpc(force_retest, reach) /\ UNCHANGED << now, switch_log >> /\ RpcFrame

SpecRpc == InitRpcOnly /\ [][NextRpc]_vars

(***************************************************************************)
(* SpecRotate: switch_rpc called over time, between calls that meet no     *)
(* transport failure                                                       *)
(***************************************************************************)

\* Of the call before the last one only the time, the argument and the
\* outcome are kept.
Summary(entry) ==
    [entry EXCEPT !.reach = {}, !.cur0 = None, !.last0 = 0]

\* switch_rpc called by a caller, remembered in switch_log: when it was
\* made, its argument, the manager's state before it, which endpoints
\* answered, whether find_best_rpc ran and what was returned.
LoggedSwitchRpc(force_retest, reach) ==
    /\ CallSwitchRpc(force_retest, reach)
    /\ LET sw == SwitchRpc(current_rpc, last_rpc_test, checkpoint, force_retest, reach, now)
           entry == [t |-> now, force |-> force_retest, reach |-> reach,
                     cur0 |-> current_rpc, last0 |-> last_rpc_test,
                     tested |-> sw.tested, ret |-> sw.ret]
       IN  switch_log' = IF switch_log = << >> THEN << entry >>
                         ELSE << Summary(switch_log[Len(switch_log)]), entry >>

NextRotate ==
    \/ \E force_retest \in BOOLEAN, reach \in SUBSET Urls :
           LoggedSwitchRpc(force_retest, reach) /\ UNCHANGED now /\ RpcFrame
    \/ Tick /\ UNCHANGED << rpcVars, checkpoint, callVars >> /\ RpcFrame
    \/ CallStart /\ switch_log' = << >>
          /\ UNCHANGED << now, rpcVars, checkpoint, streak, armed >> /\ RpcFrame
    \/ \E reach \in SUBSET Urls : CallTop(reach) /\ UNCHANGED << now, switch_log >> /\ RpcFrame
    \/ \E outcome \in Outcomes \ {"exception"} :
           CallPost(outcome) /\ UNCHANGED << now, switch_log >> /\ RpcFrame
    \/ CallReturn /\ UNCHANGED << now, switch_log >> /\ RpcFrame

SpecRotate == InitRpcOnly /\ [][NextRotate]_vars

(***************************************************************************)
(* SpecCall: one rpc_call after another, each with the trace of what it    *)
(* did, under arbitrary provider answers and rotation outcomes             *)
(***************************************************************************)

\* What the top of the loop did.
TopEvent(reach) ==
    IF call.attempt >= 2 THEN "giveup"
    ELSE IF current_rpc = None
    THEN LET sw == SwitchRpc(current_rpc, last_rpc_test, checkpoint, TRUE, reach, now)
         IN  IF ~sw.tested THEN "no_test"
             ELSE IF sw.ret THEN "test_found" ELSE "test_none"
    ELSE "pass"

\* The request was sent and answered with the outcome.
PostEvent(outcome) ==
    CASE outcome = "ok" -> "post_ok"
      [] outcome = "quota" -> "post_quota"
      [] outcome = "error" -> "post_error"
      [] outcome = "exception" -> "post_exception"

Posts == { PostEvent(outcome) : outcome \in Outcomes }

TracedCallStart ==
    /\ CallStart
    /\ call_log' = << IF current_rpc = None THEN "start_none" ELSE "start_active" >>

TracedCallTop(reach) ==
    /\ CallTop(reach)
    /\ call_log' = Append(call_log, TopEvent(reach))

TracedCallPost(outcome) ==
    /\ CallPost(outcome)
    /\ call_log' = Append(call_log, PostEvent(outcome))

TracedCallRotate(reach) ==
    /\ CallRotate(reach)
    /\ call_log' = Append(call_log, "rotate")

TracedCallReturn ==
    /\ CallReturn
    /\ call_log' = << >>

CallTraceFrame ==
    UNCHANGED << envVars, activity, monVars, histVars, selVars, switch_log, procVars, liveVars,
                 extraVars >>

NextCall ==
    \/ TracedCallStart /\ UNCHANGED << rpcVars, checkpoint, streak, armed >> /\ CallTraceFrame
    \/ \E reach \in SUBSET Urls : TracedCallTop(reach) /\ CallTraceFrame
    \/ \E outcome \in Outcomes : TracedCallPost(outcome) /\ CallTraceFrame
    \/ \E reach \in SUBSET Urls : TracedCallRotate(reach) /\ CallTraceFrame
    \/ TracedCallReturn /\ CallTraceFrame
    \/ \E force_retest \in BOOLEAN, reach \in SUBSET Urls :
           CallSwitchRpc(force_retest, reach) /\ UNCHANGED call_log /\ CallTraceFrame

SpecCall == InitRpcOnly /\ [][NextCall]_vars

(***************************************************************************)
(* The chain the monitor reads                                             *)
(***************************************************************************)

Blocks == 1..MaxHead

\* An address as the chain spells it: an account and whether the spelling
\* has upper-case hex digits.
Address(n, mixed) == [account |-> n, mixed_case |-> mixed]

\* A spelling that is kept as it is.
LowerKeepsCase(address) == address

\* str.lower()
Lower(address) == [address EXCEPT !.mixed_case = FALSE]

\* Python's None for a transaction's "to".
NoAddress == [account |-> 0, mixed_case |-> FALSE]

\* The transactions of block b: every fourth block is empty, the one
\* before it holds a contract creation (to = null), the others hold a
\* transfer and its way back, spelled differently.
Transactions(b) ==
    CASE b % 4 = 0 -> << >>
      [] b % 4 = 3 -> << [from |-> Address(b, TRUE), to |-> NoAddress] >>
      [] OTHER     -> << [from |-> Address(b, TRUE),      to |-> Address(b + 1, FALSE)],
                         [from |-> Address(b + 1, TRUE),  to |-> Address(b, FALSE)] >>

\* The block's "timestamp" field.
Timestamp(b) == b * BlockSeconds

(***************************************************************************)
(* core/utils.py, AddressClassifier.extract_addresses_from_block and       *)
(* BlockProcessor (processing/block_processor.py)                          *)
(***************************************************************************)

\* (get_date_from_timestamp, get_time_slot): the start of the 5-minute
\* slot the timestamp falls in.
TimeSlotKey(timestamp) == (timestamp \div 300) * 300

\* What gather() holds for one block: the block, None, or an exception.
BlockData(b) == [kind |-> "block", number |-> b]
NoData == [kind |-> "None", number |-> 0]
RaisedData == [kind |-> "Exception", number |-> 0]

\* The participants of the transactions with a "to", lower-cased.
TxAddressesOfTransfers(txs) ==
    { Lower(txs[i].from) : i \in { j \in 1..Len(txs) : txs[j].from # NoAddress
                                                       /\ txs[j].to # NoAddress } }
      \cup { Lower(txs[i].to) : i \in { j \in 1..Len(txs) : txs[j].to # NoAddress } }

\* The participants of a list of transactions, lower-cased.
TxAddresses(txs) ==
    { Lower(txs[i].from) : i \in { j \in 1..Len(txs) : txs[j].from # NoAddress } }
      \cup { Lower(txs[i].to) : i \in { j \in 1..Len(txs) : txs[j].to # NoAddress } }

\* extract_addresses_from_block on what get_block gave: None, a dict
\* without "transactions", or a block with its transactions.
ExtractAddresses(block) ==
    IF block.kind # "block"
    THEN [addresses |-> {}, tx_count |-> 0]
    ELSE [addresses |-> TxAddresses(block.transactions),
          tx_count |-> Len(block.transactions)]

\* extract_addresses_from_block on block_data.number of the chain:
\* (addresses, tx_count)
ExtractAddressesFromBlock(block_data) ==
    ExtractAddresses([kind |-> "block", transactions |-> Transactions(block_data.number)])

\* A test that takes every entry of blocks_data for a block.
IsUsableAlways(block_data) == TRUE

\* _extract_data_from_blocks' test: not an exception and not empty.
IsUsable(block_data) ==
    ~(block_data.kind = "Exception" \/ block_data.kind = "None")

\* _extract_data_from_blocks: the addresses of the usable blocks and the
\* blocks (with timestamps) that have addresses.  A failed fetch stands for
\* the block the chain holds at its place.
RECURSIVE ExtractDataFromBlocks(_, _)
ExtractDataFromBlocks(data, block_num) ==
    IF data = << >>
    THEN [all_addresses |-> {}, blocks_with_timestamps |-> << >>,
          total_transactions |-> 0, successful_blocks |-> 0]
    ELSE LET rest == ExtractDataFromBlocks(Tail(data), block_num + 1)
             found == ExtractAddressesFromBlock(BlockData(block_num))
         IN  IF IsUsable(Head(data)) /\ found.addresses # {}
             THEN [all_addresses |-> found.addresses \cup rest.all_addresses,
                   blocks_with_timestamps |->
                       << << block_num, Timestamp(block_num) >> >> \o rest.blocks_with_timestamps,
                   total_transactions |-> found.tx_count + rest.total_transactions,
                   successful_blocks |-> 1 + rest.successful_blocks]
             ELSE rest

\* _calculate_activity_stats: per time slot the set of addresses and the
\* number of transactions of the given blocks.
RECURSIVE CalculateActivityStats(_)
CalculateActivityStats(blocks_with_timestamps) ==
    IF blocks_with_timestamps = << >> THEN << >>
    ELSE LET n == Len(blocks_with_timestamps)
             time_slots == CalculateActivityStats(SubSeq(blocks_with_timestamps, 1, n - 1))
             block_num == blocks_with_timestamps[n][1]
             key == TimeSlotKey(blocks_with_timestamps[n][2])
             old == IF key \in DOMAIN time_slots THEN time_slots[key]
                    ELSE [addresses |-> {}, transactions |-> 0]
             new == [addresses |-> old.addresses \cup TxAddresses(Transactions(block_num)),
                     transactions |-> old.transactions + Len(Transactions(block_num))]
         IN  [ k \in DOMAIN time_slots \cup {key} |-> IF k = key THEN new ELSE time_slots[k] ]

\* A save_activity_stats that adds to the row a slot has.
SaveActivityStatsAdding(table, time_slots) ==
    [ k \in DOMAIN table \cup DOMAIN time_slots |->
        IF k \in DOMAIN time_slots
        THEN [active_wallets |->
                  (IF k \in DOMAIN table THEN table[k].active_wallets ELSE 0)
                     + Cardinality(time_slots[k].addresses),
              total_transactions |->
                  (IF k \in DOMAIN table THEN table[k].total_transactions ELSE 0)
                     + time_slots[k].transactions]
        ELSE table[k] ]

\* save_activity_stats: INSERT OR REPLACE one row per slot.
SaveActivityStats(table, time_slots) ==
    [ k \in DOMAIN table \cup DOMAIN time_slots |->
        IF k \in DOMAIN time_slots
        THEN [active_wallets |-> Cardinality(time_slots[k].addresses),
              total_transactions |-> time_slots[k].transactions]
        ELSE table[k] ]

\* The block numbers of the batch whose entry of data passes the test.
UsableBlocks(data, start) ==
    { start + i - 1 : i \in { j \in 1..Len(data) : IsUsable(data[j]) } }

Min(a, b) == IF a <= b THEN a ELSE b

\* A batch end that ignores the chain head.
BatchEndPastHead(start, latest) == start + BATCH_SIZE - 1

\* handle_new_blocks: end_block = min(start_block + BATCH_SIZE - 1, latest_block)
BatchEnd(start, latest) == Min(start + BATCH_SIZE - 1, latest)

\* handle_new_blocks: start_block = end_block + 1
NextStart(end) == end + 1

(***************************************************************************)
(* HyperEVMMonitor (monitor.py): run(), one step per suspension point      *)
(***************************************************************************)

\* The steps of a batch that write to the database.
PersistenceSteps == {"tokens", "addresses", "activity"}

\* The manager state and the call slot as RPCManager.__init__ leaves them.
FreshRpc ==
    /\ rpc_failures' = [u \in Urls |-> 0]
    /\ last_rpc_test' = 0
    /\ call' = NoCall
    /\ streak' = [u \in Urls |-> 0]
    /\ armed' = FALSE

\* An initialize() that starts from scratch whatever the checkpoint holds.
InitializeForgetful ==
    /\ pc = "boot"
    /\ current_rpc' = None
    /\ current_block' = NoBlock
    /\ pc' = "ensure"
    /\ UNCHANGED << rpc_failures, last_rpc_test, checkpoint, activity, latest_block,
                    start_block, end_block, blocks_data, histVars, callVars >>

\* initialize(): create_rpc_manager restores the saved endpoint, then the
\* saved block becomes current_block ("if saved_block").
Initialize ==
    /\ pc = "boot"
    /\ LET saved == GetCheckpoint(checkpoint)
       IN  /\ current_rpc' = saved[2]
           /\ current_block' = saved[1]
    /\ pc' = "ensure"
    /\ UNCHANGED << rpc_failures, last_rpc_test, checkpoint, activity, latest_block,
                    start_block, end_block, blocks_data, histVars, callVars >>

\* ensure_rpc_connection(): switch_rpc(force_retest=True); run() returns
\* when no endpoint answers.
EnsureRpcConnection(reach) ==
    /\ pc = "ensure"
    /\ CallSwitchRpc(TRUE, reach)
    /\ pc' = IF SwitchRpc(current_rpc, last_rpc_test, checkpoint, TRUE, reach, now).ret
             THEN "cycle" ELSE "stopped"
    /\ UNCHANGED << activity, current_block, latest_block, start_block, end_block,
                    blocks_data, histVars, switch_log >>

\* monitoring_cycle() calls get_latest_block().
CycleStart ==
    /\ pc = "cycle"
    /\ CallStart
    /\ pc' = "latest"
    /\ UNCHANGED << rpcVars, dbVars, current_block, latest_block, start_block, end_block,
                    blocks_data, histVars, streak, armed, switch_log >>

\* monitoring_cycle() once get_latest_block() has answered `latest`
\* (0 when the call gave nothing): give up the cycle, or start monitoring
\* at the head, or enter handle_new_blocks, or find nothing new.
CycleLatest(latest) ==
    /\ pc = "latest"
    /\ call.pc = "done"
    /\ call' = NoCall
    /\ IF latest = NoBlock
       THEN /\ pc' = "sleep"
            /\ UNCHANGED << checkpoint, current_block, latest_block, start_block,
                            batches, entry_block, first_block >>
       ELSE IF current_block = NoBlock
       THEN /\ current_block' = latest
            /\ checkpoint' = SaveCheckpoint(checkpoint, latest, None)
            /\ first_block' = IF first_block = NoBlock THEN latest ELSE first_block
            /\ pc' = "sleep"
            /\ UNCHANGED << latest_block, start_block, batches, entry_block >>
       ELSE IF latest > current_block
       THEN /\ latest_block' = latest
            /\ start_block' = current_block + 1
            /\ entry_block' = current_block
            /\ batches' = << >>
            /\ pc' = "batch"
            /\ UNCHANGED << checkpoint, current_block, first_block >>
       ELSE /\ pc' = "retest"
            /\ batches' = << >>
            /\ UNCHANGED << checkpoint, current_block, latest_block, start_block,
                            entry_block, first_block >>
    /\ UNCHANGED << rpcVars, activity, end_block, blocks_data, persisted, skipped,
                    steps, crashes, resumed, streak, armed, switch_log >>

\* handle_new_blocks' loop test: the next batch, or the return to
\* monitoring_cycle (the locals of the loop are gone).
BatchLoop ==
    /\ pc = "batch"
    /\ IF start_block <= latest_block
       THEN /\ end_block' = BatchEnd(start_block, latest_block)
            /\ resumed' = FALSE
            /\ pc' = "fetch"
            /\ UNCHANGED start_block
       ELSE /\ end_block' = NoBlock
            /\ start_block' = NoBlock
            /\ pc' = "retest"
            /\ UNCHANGED resumed
    /\ blocks_data' = << >>
    /\ steps' = {}
    /\ UNCHANGED << rpcVars, dbVars, current_block, latest_block, persisted,
                    skipped, batches, entry_block, first_block, crashes, callVars >>

\* _fetch_blocks_parallel: get_block for the next block of the batch (the
\* gathered calls are taken one after the other), or on to the extraction.
FetchStart ==
    /\ pc = "fetch"
    /\ IF Len(blocks_data) < end_block - start_block + 1
       THEN /\ CallStart
            /\ pc' = "fetching"
       ELSE /\ pc' = "extract"
            /\ UNCHANGED call
    /\ UNCHANGED << rpcVars, dbVars, current_block, latest_block, start_block, end_block,
                    blocks_data, histVars, streak, armed, switch_log >>

\* What gather() can hold for a call: the block or a null result when the
\* provider answered, None or the exception when rpc_call gave up.
FetchResults(answered, block_num) ==
    IF answered THEN { BlockData(block_num), NoData } ELSE { NoData, RaisedData }

\* get_block returned.
FetchDone(block_data) ==
    /\ pc = "fetching"
    /\ call.pc = "done"
    /\ block_data \in FetchResults(call.ret, start_block + Len(blocks_data))
    /\ call' = NoCall
    /\ blocks_data' = Append(blocks_data, block_data)
    /\ pc' = "fetch"
    /\ UNCHANGED << rpcVars, dbVars, current_block, latest_block, start_block, end_block,
                    histVars, streak, armed, switch_log >>

\* _process_new_addresses up to save_tokens: nothing without addresses;
\* else the new addresses are classified and the contracts probed through
\* rpc_call, and the tokens found are saved.
ClassifyCall ==
    /\ pc = "extract"
    /\ ExtractDataFromBlocks(blocks_data, start_block).all_addresses # {}
    /\ CallStart
    /\ pc' = "classifying"
    /\ UNCHANGED << rpcVars, dbVars, current_block, latest_block, start_block, end_block,
                    blocks_data, histVars, streak, armed, switch_log >>

ClassifyDone ==
    /\ pc = "classifying"
    /\ call.pc = "done"
    /\ call' = NoCall
    /\ pc' = "extract"
    /\ UNCHANGED << rpcVars, dbVars, current_block, latest_block, start_block, end_block,
                    blocks_data, histVars, streak, armed, switch_log >>

SaveTokens ==
    /\ pc = "extract"
    /\ steps' = steps \cup {"tokens"}
    /\ pc' = "addresses"
    /\ UNCHANGED << rpcVars, dbVars, current_block, latest_block, start_block, end_block,
                    blocks_data, persisted, skipped, batches, entry_block,
                    first_block, crashes, resumed, callVars >>

\* _process_new_addresses' end: save_addresses (when there are addresses).
SaveAddresses ==
    /\ pc = "addresses"
    /\ persisted' = persisted \cup UsableBlocks(blocks_data, start_block)
    /\ skipped' = (skipped \cup (start_block..end_block))
                      \ (persisted \cup UsableBlocks(blocks_data, start_block))
    /\ steps' = steps \cup {"addresses"}
    /\ pc' = "activity"
    /\ UNCHANGED << rpcVars, dbVars, current_block, latest_block, start_block, end_block,
                    blocks_data, batches, entry_block, first_block, crashes,
                    resumed, callVars >>

\* process_block_batch's end: the activity slots of the fetched blocks are
\* computed and saved (when a block has addresses), and the batch returns.
SaveActivity ==
    /\ pc = "activity"
    /\ LET extracted == ExtractDataFromBlocks(blocks_data, start_block)
       IN  IF extracted.blocks_with_timestamps # << >>
           THEN activity' = SaveActivityStats(activity,
                                CalculateActivityStats(extracted.blocks_with_timestamps))
           ELSE UNCHANGED activity
    /\ steps' = steps \cup {"activity"}
    /\ pc' = "checkpoint"
    /\ UNCHANGED << rpcVars, checkpoint, current_block, latest_block, start_block, end_block,
                    blocks_data, persisted, skipped, batches, entry_block, first_block,
                    crashes, resumed, callVars >>

\* The mark the except branch of monitoring_cycle leaves once its
\* switch_rpc(force_retest=True) has tested the endpoints.
Rotated(reach) ==
    IF SwitchRpc(current_rpc, last_rpc_test, checkpoint, TRUE, reach, now).tested
    THEN {"rotated"} ELSE {}

\* get_latest_block() raises on the answer it got (int(result, 16) of a
\* malformed result): monitoring_cycle's except branch forces a rotation and
\* gives up the cycle.
LatestRaises(reach) ==
    /\ pc = "latest"
    /\ call.pc = "done"
    /\ call.ret
    /\ call' = NoCall
    /\ LET sw == SwitchRpc(current_rpc, last_rpc_test, checkpoint, TRUE, reach, now)
       IN  /\ current_rpc' = sw.cur
           /\ last_rpc_test' = sw.last
           /\ checkpoint' = sw.ck
           /\ armed' = (armed /\ ~sw.tested)
    /\ steps' = steps \cup {"latest_raised"} \cup Rotated(reach)
    /\ pc' = "sleep"
    /\ UNCHANGED << rpc_failures, streak, activity, current_block, latest_block,
                    start_block, end_block, blocks_data, persisted, skipped, batches,
                    entry_block, first_block, crashes, resumed, switch_log >>

\* A handler that saves the checkpoint although the batch raised.
BatchRaisesAndAdvances(reach) ==
    /\ pc \in {"extract", "addresses", "activity"}
    /\ call.pc = "idle"
    /\ LET sw == SwitchRpc(current_rpc, last_rpc_test, checkpoint, TRUE, reach, now)
       IN  /\ current_rpc' = sw.cur
           /\ last_rpc_test' = sw.last
           /\ checkpoint' = SaveCheckpoint(sw.ck, end_block, None)
           /\ armed' = (armed /\ ~sw.tested)
    /\ steps' = steps \cup {"raised"} \cup Rotated(reach)
    /\ pc' = "sleep"
    /\ UNCHANGED << rpc_failures, streak, call, activity, current_block, latest_block,
                    start_block, end_block, blocks_data, persisted, skipped, batches,
                    entry_block, first_block, crashes, resumed, switch_log >>

\* An exception of process_block_batch that monitoring_cycle does not
\* catch: it reaches run(), which leaves its loop.
BatchRaisesStops(reach) ==
    /\ pc \in {"extract", "addresses", "activity"}
    /\ call.pc = "idle"
    /\ steps' = steps \cup {"raised"}
    /\ pc' = "stopped"
    /\ UNCHANGED << rpcVars, checkpoint, callVars, activity, current_block, latest_block,
                    start_block, end_block, blocks_data, persisted, skipped, batches,
                    entry_block, first_block, crashes, resumed >>

\* process_block_batch raises (malformed block data, a database error):
\* monitoring_cycle's except branch forces a rotation and gives up the cycle.
BatchRaises(reach) ==
    /\ pc \in {"extract", "addresses", "activity"}
    /\ call.pc = "idle"
    /\ CallSwitchRpc(TRUE, reach)
    /\ steps' = steps \cup {"raised"} \cup Rotated(reach)
    /\ pc' = "sleep"
    /\ UNCHANGED << activity, current_block, latest_block, start_block, end_block,
                    blocks_data, persisted, skipped, batches, entry_block,
                    first_block, crashes, resumed, switch_log >>

\* A handler that saves the head as the checkpoint after the first batch.
AdvanceCheckpointToHead ==
    /\ pc = "checkpoint"
    /\ current_block' = latest_block
    /\ checkpoint' = SaveCheckpoint(checkpoint, latest_block, None)
    /\ start_block' = NextStart(latest_block)
    /\ batches' = Append(batches, << start_block, end_block >>)
    /\ pc' = "batch"
    /\ UNCHANGED << rpcVars, activity, latest_block, end_block, blocks_data, persisted,
                    skipped, steps, entry_block, first_block, crashes, resumed,
                    callVars >>

\* handle_new_blocks after process_block_batch returned: current_block and
\* the saved checkpoint move to end_block, the next batch starts after it.
AdvanceCheckpoint ==
    /\ pc = "checkpoint"
    /\ current_block' = end_block
    /\ checkpoint' = SaveCheckpoint(checkpoint, end_block, None)
    /\ start_block' = NextStart(end_block)
    /\ batches' = Append(batches, << start_block, end_block >>)
    /\ pc' = "batch"
    /\ UNCHANGED << rpcVars, activity, latest_block, end_block, blocks_data, persisted,
                    skipped, steps, entry_block, first_block, crashes, resumed,
                    callVars >>

\* monitoring_cycle's end: the periodic switch_rpc() when the last test is
\* older than the retest interval.
PeriodicRetest(reach) ==
    /\ pc = "retest"
    /\ IF ShouldRetestRpc(last_rpc_test, now)
       THEN CallSwitchRpc(FALSE, reach)
       ELSE UNCHANGED << rpcVars, checkpoint, call, streak, armed >>
    /\ pc' = "sleep"
    /\ UNCHANGED << activity, current_block, latest_block, start_block, end_block,
                    blocks_data, histVars, switch_log >>

\* run(): asyncio.sleep(CHECK_INTERVAL), then the next cycle; nothing is
\* left of the locals of the cycle that ended.
Sleep ==
    /\ pc = "sleep"
    /\ pc' = "cycle"
    /\ latest_block' = NoBlock
    /\ start_block' = NoBlock
    /\ end_block' = NoBlock
    /\ blocks_data' = << >>
    /\ steps' = {}
    /\ batches' = << >>
    /\ entry_block' = NoBlock
    /\ UNCHANGED << rpcVars, dbVars, current_block, persisted, skipped, first_block,
                    crashes, resumed, callVars >>

\* The process is killed (or has returned from run()) and is started
\* again: only the database survives.
Crash ==
    /\ pc # "boot"
    /\ crashes < MaxCrashes
    /\ crashes' = crashes + 1
    /\ resumed' = TRUE
    /\ pc' = "boot"
    /\ current_rpc' = None
    /\ FreshRpc
    /\ current_block' = NoBlock
    /\ latest_block' = NoBlock
    /\ start_block' = NoBlock
    /\ end_block' = NoBlock
    /\ blocks_data' = << >>
    /\ steps' = {}
    /\ batches' = << >>
    /\ entry_block' = NoBlock
    /\ UNCHANGED << dbVars, persisted, skipped, first_block, switch_log >>

(***************************************************************************)
(* The environment of the monitor                                          *)
(***************************************************************************)

\* The chain grows by one block.
NewBlock ==
    /\ head < MaxHead
    /\ head' = head + 1

\* The heads an answering endpoint reports: the chain head or a little less.
ReportedHeads == { h \in (head - MaxLag)..head : h >= 1 }

(***************************************************************************)
(* Spec: the monitor                                                       *)
(***************************************************************************)

Init ==
    /\ InitEnv /\ InitRpc /\ InitDb /\ InitMonitor /\ InitHistory /\ InitCall
    /\ InitProc /\ InitNet /\ InitExtra /\ InitSelect

EnvFrame == UNCHANGED << envVars, selVars, auxVars >>

\* The sets of endpoints that answer while the monitor runs: an outage takes
\* all providers or none (SpecRpc and SpecRotate take every subset).
Outages == { {}, Urls }

InCall == pc \in {"latest", "fetching", "classifying"}

CallFrame == UNCHANGED << activity, monVars, histVars, switch_log >>

Next ==
    \/ Initialize /\ EnvFrame
    \/ \E reach \in Outages : EnsureRpcConnection(reach) /\ EnvFrame
    \/ CycleStart /\ EnvFrame
    \/ \E latest \in IF call.ret THEN ReportedHeads ELSE {NoBlock} :
           CycleLatest(latest) /\ EnvFrame
    \/ BatchLoop /\ EnvFrame
    \/ FetchStart /\ EnvFrame
    \/ \E block_data \in {NoData, RaisedData} \cup { BlockData(b) : b \in Blocks } :
           FetchDone(block_data) /\ EnvFrame
    \/ ClassifyCall /\ EnvFrame
    \/ ClassifyDone /\ EnvFrame
    \/ SaveTokens /\ EnvFrame
    \/ SaveAddresses /\ EnvFrame
    \/ SaveActivity /\ EnvFrame
    \/ \E reach \in Outages : BatchRaises(reach) /\ EnvFrame
    \/ \E reach \in Outages : LatestRaises(reach) /\ EnvFrame
    \/ AdvanceCheckpoint /\ EnvFrame
    \/ \E reach \in Outages : PeriodicRetest(reach) /\ EnvFrame
    \/ Sleep /\ EnvFrame
    \/ Crash /\ EnvFrame
    \/ \E reach \in Outages : CallTop(reach) /\ InCall /\ CallFrame /\ EnvFrame
    \/ \E outcome \in Outcomes : CallPost(outcome) /\ InCall /\ CallFrame /\ EnvFrame
    \/ \E reach \in Outages : CallRotate(reach) /\ InCall /\ CallFrame /\ EnvFrame
    \/ NewBlock /\ pc = "cycle"
          /\ UNCHANGED << now, rpcVars, dbVars, monVars, histVars, callVars, selVars, auxVars >>
    \/ Tick /\ pc = "sleep"
          /\ UNCHANGED << head, rpcVars, dbVars, monVars, histVars, callVars, selVars, auxVars >>

Spec == Init /\ [][Next]_vars

(***************************************************************************)
(* SpecRestart: the manager restarted between calls that meet arbitrary    *)
(* provider answers and rotation outcomes                                  *)
(***************************************************************************)

NextRestart ==
    \/ Initialize /\ EnvFrame
    \/ \E reach \in SUBSET Urls : EnsureRpcConnection(reach) /\ EnvFrame
    \/ Crash /\ EnvFrame
    \/ pc = "cycle" /\ CallStart
          /\ UNCHANGED << now, rpcVars, checkpoint, streak, armed, switch_log >> /\ RpcFrame
    \/ \E reach \in SUBSET Urls :
           pc = "cycle" /\ CallTop(reach) /\ UNCHANGED << now, switch_log >> /\ RpcFrame
    \/ \E outcome \in Outcomes :
           pc = "cycle" /\ CallPost(outcome) /\ UNCHANGED << now, switch_log >> /\ RpcFrame
    \/ \E reach \in SUBSET Urls :
           pc = "cycle" /\ CallRotate(reach) /\ UNCHANGED << now, switch_log >> /\ RpcFrame
    \/ pc = "cycle" /\ CallReturn /\ UNCHANGED << now, switch_log >> /\ RpcFrame
    \/ \E force_retest \in BOOLEAN, reach \in SUBSET Urls :
           pc = "cycle" /\ CallSwitchRpc(force_retest, reach)
              /\ UNCHANGED << now, switch_log >> /\ RpcFrame

SpecRestart == Init /\ [][NextRestart]_vars

(***************************************************************************)
(* SpecLive: the monitor loop with providers that keep their behaviour     *)
(* after finitely many changes, and a loop that keeps running              *)
(***************************************************************************)

\* How a provider behaves: "good" answers every request with the state of
\* the chain; "down" answers nothing (the test fails, a request raises);
\* "frozen" answers every request, the test included, with the state of the
\* chain at block FrozenHead, where its node stopped following the chain.
Conditions == { "good", "down", "frozen" }

\* The endpoints whose test_rpc_endpoint succeeds.
Reachable == { u \in Urls : net[u] # "down" }

\* The head the endpoint knows.
HeadOf(u) == IF net[u] = "frozen" THEN Min(head, FrozenHead) ELSE head

\* What the request posted to the active endpoint meets.
Answer == IF current_rpc # None /\ net[current_rpc] = "down" THEN "exception" ELSE "ok"

\* get_latest_block()'s result once rpc_call is over.
LatestAnswer == IF call.ret /\ current_rpc # None THEN HeadOf(current_rpc) ELSE NoBlock

\* get_block(block_num)'s result once rpc_call is over: a block the
\* endpoint does not know is a null result.
BlockAnswer(block_num) ==
    IF call.ret /\ current_rpc # None /\ block_num <= HeadOf(current_rpc)
    THEN BlockData(block_num) ELSE NoData

\* A provider goes down, comes back or falls behind.
NetChange ==
    /\ net_changes < MaxNetChanges
    /\ net_changes' = net_changes + 1
    /\ \E u \in Urls, c \in Conditions :
          /\ c # net[u]
          /\ net' = [net EXCEPT ![u] = c]
    /\ UNCHANGED probe_calls

ProbeFrame == UNCHANGED << envVars, selVars, logVars, procVars, net, net_changes, extraVars >>

\* One more of the calls that classify the batch's addresses and probe its
\* contracts: a batch makes at most MaxProbes of them.
ProbeCall ==
    /\ ClassifyCall
    /\ probe_calls < MaxProbes
    /\ probe_calls' = probe_calls + 1
    /\ ProbeFrame

\* The calls are over and the tokens found are saved.
ProbesOver ==
    /\ SaveTokens
    /\ probe_calls' = 0
    /\ ProbeFrame

\* The steps of run() and of the calls it awaits.
MonitorStep ==
    \/ Initialize /\ EnvFrame
    \/ EnsureRpcConnection(Reachable) /\ EnvFrame
    \/ CycleStart /\ EnvFrame
    \/ CycleLatest(LatestAnswer) /\ EnvFrame
    \/ BatchLoop /\ EnvFrame
    \/ FetchStart /\ EnvFrame
    \/ FetchDone(BlockAnswer(start_block + Len(blocks_data))) /\ EnvFrame
    \/ ProbeCall
    \/ ClassifyDone /\ EnvFrame
    \/ ProbesOver
    \/ SaveAddresses /\ EnvFrame
    \/ SaveActivity /\ EnvFrame
    \/ AdvanceCheckpoint /\ EnvFrame
    \/ PeriodicRetest(Reachable) /\ EnvFrame
    \/ Sleep /\ EnvFrame
    \/ CallTop(Reachable) /\ InCall /\ CallFrame /\ EnvFrame
    \/ CallPost(Answer) /\ InCall /\ CallFrame /\ EnvFrame
    \/ CallRotate(Reachable) /\ InCall /\ CallFrame /\ EnvFrame

\* Time passes while the loop sleeps.
SleepTick ==
    /\ Tick
    /\ pc = "sleep"
    /\ UNCHANGED << head, rpcVars, dbVars, monVars, histVars, callVars, selVars, auxVars >>

NextLive ==
    \/ MonitorStep
    \/ SleepTick
    \/ NewBlock /\ pc = "cycle"
          /\ UNCHANGED << now, rpcVars, dbVars, monVars, histVars, callVars, selVars, auxVars >>
    \/ NetChange
          /\ UNCHANGED << envVars, rpcVars, dbVars, monVars, histVars, callVars, selVars,
                          logVars, procVars, extraVars >>

InitLive ==
    /\ InitEnv /\ InitRpc /\ InitDb /\ InitMonitor /\ InitHistory /\ InitCall /\ InitProc
    /\ InitExtra /\ InitSelect
    /\ net \in [Urls -> Conditions]
    /\ net_changes = 0
    /\ probe_calls = 0

\* The event loop keeps running the coroutine of run(), and the clock goes on.
SpecLive ==
    InitLive /\ [][NextLive]_vars /\ WF_vars(MonitorStep) /\ WF_vars(SleepTick)

(***************************************************************************)
(* SpecBatch: process_block_batch on one range after another, with the     *)
(* wallets and tokens tables, under arbitrary fetch, bytecode and token    *)
(* probe answers                                                           *)
(***************************************************************************)

\* What eth_getCode can give for an address: no answer (rpc_call returned
\* None), the empty bytecode, a bytecode.
Codes == { None, "0x", "0x6080" }

\* check_address_type with a failed bytecode fetch surfacing as an
\* exception of the task.
CheckAddressTypeRaising(code) ==
    IF code = None THEN "Exception"
    ELSE IF code = "0x" \/ Len(code) <= 2 THEN "wallet" ELSE "contract"

\* check_address_type: the type by the bytecode, "unknown" without one.
CheckAddressType(code) ==
    IF code = None THEN "unknown"
    ELSE IF code = "0x" \/ Len(code) <= 2 THEN "wallet" ELSE "contract"

\* classify_addresses_batch: one task per address; the results that are
\* (address, type) pairs make the returned map.
ClassifyAddressesBatch(addresses, codes) ==
    LET results == { [address |-> a, type |-> CheckAddressType(codes[a.account])] :
                       a \in addresses }
        pairs == { r \in results : r.type # "Exception" }
    IN  [ a \in { r.address : r \in pairs } |-> CheckAddressType(codes[a.account]) ]

\* detect_tokens_batch: the contracts whose check_if_token gave token data.
DetectTokensBatch(contracts, probes) ==
    [ a \in { c \in contracts : probes[c.account] } |-> [status |-> "token_data"] ]

\* A filter that takes every address for new.
FilterNewAddressesAll(table, addresses) == addresses

\* Database.filter_new_addresses: the addresses without a row whose type is
\* not 'unknown'.
FilterNewAddresses(table, addresses) ==
    addresses \ { a \in DOMAIN table : table[a].address_type # "unknown" }

\* Database.save_addresses: INSERT OR REPLACE of one row per entry.
DbSaveAddresses(table, addresses_data, block_number) ==
    [ a \in DOMAIN table \cup DOMAIN addresses_data |->
        IF a \in DOMAIN addresses_data
        THEN [address_type |-> addresses_data[a], last_activity_block |-> block_number]
        ELSE table[a] ]

\* Database.save_tokens: INSERT OR REPLACE of one row per token, status 'detected'.
DbSaveTokens(table, tokens_data) ==
    [ a \in DOMAIN table \cup DOMAIN tokens_data |->
        IF a \in DOMAIN tokens_data THEN [status |-> "detected", last_retry |-> NoTime]
        ELSE table[a] ]

\* The accounts behind a set of addresses.
AccountsOf(addresses) == { a.account : a \in addresses }

\* _process_new_addresses: what it classifies, finds and saves.
ProcessNewAddresses(wallet_table, token_table, all_addresses, block_number, codes, probes) ==
    LET new_addresses == FilterNewAddresses(wallet_table, all_addresses)
        address_types == IF new_addresses = {}
                         THEN [ a \in all_addresses |-> "unknown" ]
                         ELSE ClassifyAddressesBatch(new_addresses, codes)
        contracts == { a \in DOMAIN address_types : address_types[a] = "contract" }
        tokens_found == IF new_addresses = {} THEN << >>
                        ELSE DetectTokensBatch(contracts, probes)
    IN  [classified |-> new_addresses,
         address_types |-> address_types,
         tokens_found |-> tokens_found,
         wallets |-> IF all_addresses = {} THEN wallet_table
                     ELSE DbSaveAddresses(wallet_table, address_types, block_number),
         tokens |-> IF all_addresses = {} THEN token_table
                    ELSE DbSaveTokens(token_table, tokens_found)]

\* What gather() can hold for the blocks start..end.
FetchOutcomes(start, end) ==
    { [ i \in 1..(end - start + 1) |-> IF i \in ok THEN BlockData(start + i - 1)
                                        ELSE IF i \in raised THEN RaisedData ELSE NoData ] :
        ok \in SUBSET (1..(end - start + 1)), raised \in SUBSET {1} }

\* process_block_batch(start, end) with the given fetch results, bytecode
\* answers and token probe answers.
ProcessBlockBatch(start, end, data, codes, probes) ==
    LET all_addresses == ExtractDataFromBlocks(data, start).all_addresses
        out == ProcessNewAddresses(wallets, tokens, all_addresses, end, codes, probes)
    IN  /\ wallets' = out.wallets
        /\ tokens' = out.tokens
        /\ batch_to' = end
        /\ last_batch' =
             [start |-> start, end |-> end,
              all_addresses |-> all_addresses,
              known |-> { a \in all_addresses \cap DOMAIN wallets :
                            wallets[a].address_type \in {"wallet", "contract"} },
              classified |-> IF all_addresses = {} THEN {} ELSE out.classified,
              codes |-> [ a \in (IF all_addresses = {} THEN {} ELSE out.classified)
                            |-> codes[a.account] ],
              address_types |-> IF all_addresses = {} THEN << >> ELSE out.address_types,
              positive |-> { a \in all_addresses : probes[a.account] }]

BatchFrame ==
    UNCHANGED << envVars, rpcVars, dbVars, monVars, histVars, callVars, selVars, logVars,
                 liveVars, extraVars >>

NextBatch ==
    \E end \in (batch_to + 1)..Min(batch_to + BATCH_SIZE, MaxHead) :
      \E data \in FetchOutcomes(batch_to + 1, end) :
        LET accounts == AccountsOf(ExtractDataFromBlocks(data, batch_to + 1).all_addresses)
        IN  \E codes \in [accounts -> Codes] :
              \E positive \in SUBSET { n \in accounts : codes[n] \notin {None, "0x"} } :
                /\ ProcessBlockBatch(batch_to + 1, end, data, codes,
                                     [ n \in accounts |-> n \in positive ])
                /\ BatchFrame

SpecBatch == InitRpcOnly /\ [][NextBatch]_vars

(***************************************************************************)
(* SpecConc: the rpc_call coroutines of one asyncio.gather, interleaved    *)
(* at their await points, with the reachability of the endpoints fixed     *)
(***************************************************************************)

\* The coroutines gathered by _fetch_blocks_parallel.
TaskIds == DOMAIN tasks

\* A coroutine that has not run yet.
NewTask == [pc |-> "new", attempt |-> 0, url |-> None, ret |-> None]

\* The top of rpc_call's loop, run without suspension after the code before
\* it: the loop ends after two attempts, a missing endpoint suspends the
\* coroutine in switch_rpc, and otherwise the request is sent to the active
\* endpoint read at that moment.
TaskTop(attempt, cur) ==
    IF attempt >= 2
    THEN [pc |-> "done", attempt |-> attempt, url |-> None, ret |-> None]
    ELSE IF cur = None
         THEN [pc |-> "top_switch", attempt |-> attempt, url |-> None, ret |-> None]
         ELSE [pc |-> "posting", attempt |-> attempt, url |-> cur, ret |-> None]

\* The first run of a gathered coroutine.
TaskStart(i) ==
    /\ tasks[i].pc = "new"
    /\ tasks' = [tasks EXCEPT ![i] = TaskTop(0, current_rpc)]
    /\ UNCHANGED << rpcVars, checkpoint, orphan_failures, rotated >>

\* switch_rpc(force_retest=True) of the loop's top resumes after its tests:
\* it decides on the active endpoint as it is now.
TaskTopSwitchDone(i) ==
    /\ tasks[i].pc = "top_switch"
    /\ LET sw == SwitchRpc(current_rpc, last_rpc_test, checkpoint, TRUE, Reachable, now)
       IN  /\ current_rpc' = sw.cur
           /\ last_rpc_test' = sw.last
           /\ checkpoint' = sw.ck
           /\ tasks' = [tasks EXCEPT ![i] =
                 IF sw.ret THEN TaskTop(tasks[i].attempt, sw.cur)
                 ELSE [pc |-> "done", attempt |-> tasks[i].attempt, url |-> None,
                       ret |-> None]]
    /\ rotated' = TRUE
    /\ UNCHANGED << rpc_failures, orphan_failures >>

\* The except branch of rpc_call: the failure is counted for the endpoint
\* that is active when the exception is handled, which is cleared at the
\* threshold.  The result is the new (rpc_failures, rpc_failures[None],
\* current_rpc).
TaskFailure(failures, orphans, cur) ==
    LET count == IF cur = None THEN orphans + 1 ELSE failures[cur] + 1
    IN  [ failures |-> IF cur = None THEN failures ELSE [failures EXCEPT ![cur] = count],
          orphans  |-> IF cur = None THEN count ELSE orphans,
          cur      |-> IF count >= RPC_MAX_FAILURES THEN None ELSE cur ]

\* session.post resumes: an answer from a reachable endpoint, an exception
\* otherwise.  After the handler, the first attempt suspends in the forced
\* rotation and the second ends the loop.
TaskPostDone(i) ==
    /\ tasks[i].pc = "posting"
    /\ IF tasks[i].url \in Reachable
       THEN /\ tasks' = [tasks EXCEPT ![i].pc = "reading"]
            /\ UNCHANGED << rpcVars, orphan_failures >>
       ELSE LET f == TaskFailure(rpc_failures, orphan_failures, current_rpc)
            IN  /\ rpc_failures' = f.failures
                /\ orphan_failures' = f.orphans
                /\ current_rpc' = f.cur
                /\ tasks' = [tasks EXCEPT ![i] =
                      IF tasks[i].attempt = 0
                      THEN [tasks[i] EXCEPT !.pc = "rotating", !.url = None]
                      ELSE TaskTop(tasks[i].attempt + 1, f.cur)]
                /\ UNCHANGED last_rpc_test
    /\ UNCHANGED << checkpoint, rotated >>

\* response.json() resumes with a result: the failures counted for the
\* endpoint active now are forgotten and the call returns.
TaskReadDone(i) ==
    /\ tasks[i].pc = "reading"
    /\ IF current_rpc = None
       THEN orphan_failures' = 0 /\ UNCHANGED rpc_failures
       ELSE rpc_failures' = [rpc_failures EXCEPT ![current_rpc] = 0]
               /\ UNCHANGED orphan_failures
    /\ tasks' = [tasks EXCEPT ![i] = [tasks[i] EXCEPT !.pc = "done", !.ret = "result"]]
    /\ UNCHANGED << current_rpc, last_rpc_test, checkpoint, rotated >>

\* The forced rotation of the except branch resumes after its tests, and the
\* loop goes on with the second attempt.
TaskRotateDone(i) ==
    /\ tasks[i].pc = "rotating"
    /\ LET sw == SwitchRpc(current_rpc, last_rpc_test, checkpoint, TRUE, Reachable, now)
       IN  /\ current_rpc' = sw.cur
           /\ last_rpc_test' = sw.last
           /\ checkpoint' = sw.ck
           /\ tasks' = [tasks EXCEPT ![i] = TaskTop(1, sw.cur)]
    /\ rotated' = TRUE
    /\ UNCHANGED << rpc_failures, orphan_failures >>

ConcFrame ==
    UNCHANGED << envVars, activity, monVars, histVars, callVars, selVars, logVars, procVars,
                 liveVars, maintVars, scanVars, statVars, cycleVars, detVars >>

\* A gather of one to MaxTasks calls starts with any active endpoint, failures counted before it or
\* not, and any endpoints down.
InitConcAny ==
    /\ InitEnv /\ InitMonitor /\ InitHistory /\ InitCall /\ InitProc /\ InitSelect
    /\ activity = << >>
    /\ net \in [Urls -> {"good", "down"}]
    /\ net_changes = 0
    /\ probe_calls = 0
    /\ current_rpc \in Urls \cup {None}
    /\ checkpoint = IF current_rpc = None THEN NoCheckpoint
                    ELSE SaveRpcChoice(NoCheckpoint, current_rpc)
    /\ rpc_failures \in { [u \in Urls |-> n] : n \in {0, RPC_MAX_FAILURES - 1} }
    /\ last_rpc_test = 0
    /\ tasks \in { [i \in 1..n |-> NewTask] : n \in 1..MaxTasks }
    /\ orphan_failures = 0
    /\ rotated = FALSE
    /\ InitMaint /\ InitScan /\ InitStat /\ InitCycle /\ InitDet

NextConc ==
    \E i \in TaskIds :
       \/ TaskStart(i) /\ ConcFrame
       \/ TaskTopSwitchDone(i) /\ ConcFrame
       \/ TaskPostDone(i) /\ ConcFrame
       \/ TaskReadDone(i) /\ ConcFrame
       \/ TaskRotateDone(i) /\ ConcFrame

SpecConc == InitConcAny /\ [][NextConc]_vars

(***************************************************************************)
(* SpecUnknown: update_unknown_types on any wallets table                  *)
(***************************************************************************)

\* The addresses the wallets table can hold (stored in lower case).
MaintAddresses == { Address(n, FALSE) : n \in 1..MaxAccounts }

\* The rows of the table whose type is 'unknown'.
UnknownIn(table) == { a \in DOMAIN table : table[a].address_type = "unknown" }

\* A get_unknown_addresses that orders by last_activity_block ascending.
GetUnknownAddressesAscending(table, limit) ==
    { S \in SUBSET UnknownIn(table) :
        /\ Cardinality(S) = Min(limit, Cardinality(UnknownIn(table)))
        /\ \A a \in S, b \in UnknownIn(table) \ S :
              table[a].last_activity_block <= table[b].last_activity_block }

\* Database.get_unknown_addresses: SELECT ... WHERE address_type = 'unknown'
\* ORDER BY last_activity_block DESC LIMIT ?.  The results it can give, as
\* sets: rows of equal last_activity_block come in any order.
GetUnknownAddresses(table, limit) ==
    { S \in SUBSET UnknownIn(table) :
        /\ Cardinality(S) = Min(limit, Cardinality(UnknownIn(table)))
        /\ \A a \in S, b \in UnknownIn(table) \ S :
              table[a].last_activity_block >= table[b].last_activity_block }

\* Database.update_address_types: UPDATE wallets SET address_type = ? WHERE
\* address = ?, for each entry.
UpdateAddressTypes(table, address_types) ==
    [ a \in DOMAIN table |->
        IF a \in DOMAIN address_types
        THEN [table[a] EXCEPT !.address_type = address_types[a]]
        ELSE table[a] ]

\* update_unknown_types(limit) when the bytecode fetches answer codes.
UpdateUnknownTypes(limit, codes) ==
    \E unknown_addresses \in GetUnknownAddresses(wallets, limit) :
       LET address_types == IF unknown_addresses = {} THEN << >>
                            ELSE ClassifyAddressesBatch(unknown_addresses, codes)
       IN  /\ wallets' = IF unknown_addresses = {} THEN wallets
                         ELSE UpdateAddressTypes(wallets, address_types)
           /\ last_maint' = [op |-> "update_unknown_types", limit |-> limit,
                             before |-> wallets, selected |-> unknown_addresses,
                             address_types |-> address_types]

\* The wallets tables over MaintAddresses.
WalletTables ==
    UNION { [ D -> [address_type : {"unknown", "wallet", "contract"},
                    last_activity_block : 1..MaxActivityBlock] ] : D \in SUBSET MaintAddresses }

InitUnknownAny ==
    /\ InitEnv /\ InitRpc /\ InitDb /\ InitMonitor /\ InitHistory /\ InitCall
    /\ InitNet /\ InitExtra /\ InitSelect
    /\ wallets \in WalletTables
    /\ tokens = << >>
    /\ batch_to = NoBlock
    /\ last_batch = << >>

UnknownFrame ==
    UNCHANGED << envVars, rpcVars, dbVars, monVars, histVars, callVars, selVars, logVars,
                 liveVars, concVars, scanVars, statVars, cycleVars, detVars, tokens, batch_to, last_batch,
                 failed_addresses, probed_at >>

NextUnknown ==
    \E limit \in 1..MaxLimit, codes \in [1..MaxAccounts -> Codes] :
        UpdateUnknownTypes(limit, codes) /\ UnknownFrame

SpecUnknown == InitUnknownAny /\ [][NextUnknown]_vars

(***************************************************************************)
(* SpecRetry: retry_failed_tokens on any tokens table, as time goes by     *)
(***************************************************************************)

\* The clock of this specification moves by half the retry delay.
HalfDelay == RETRY_DELAY \div 2

\* The contracts the tokens table can hold.
TokenAddresses == { Address(n, FALSE) : n \in 1..MaxLimit }

\* A get_failed_tokens that does not look at last_retry.
GetFailedTokensUngated(table, limit, t) ==
    LET failed == { a \in DOMAIN table : table[a].status = "failed" }
    IN  { S \in SUBSET failed : Cardinality(S) = Min(limit, Cardinality(failed)) }

\* Database.get_failed_tokens at time t: SELECT ... WHERE status = 'failed'
\* AND (last_retry IS NULL OR datetime(last_retry, '+1 hour') <
\* datetime('now')) LIMIT ?.  The results it can give, as sets.
GetFailedTokens(table, limit, t) ==
    LET failed == { a \in DOMAIN table :
                      /\ table[a].status = "failed"
                      /\ \/ table[a].last_retry = NoTime
                         \/ table[a].last_retry + RETRY_DELAY < t }
    IN  { S \in SUBSET failed : Cardinality(S) = Min(limit, Cardinality(failed)) }

\* Database.mark_token_retry at time t: UPDATE tokens SET last_retry =
\* CURRENT_TIMESTAMP WHERE address = ?.
MarkTokenRetry(table, address, t) ==
    [ a \in DOMAIN table |->
        IF a = address THEN [table[a] EXCEPT !.last_retry = t] ELSE table[a] ]

\* The orders a result set can come in.
Orders(S) == { q \in [1..Cardinality(S) -> S] : \A a \in S : \E i \in DOMAIN q : q[i] = a }

\* retry_failed_tokens(limit) up to its loop.
RetryFailedTokens(limit) ==
    /\ failed_addresses = << >>
    /\ \E S \in GetFailedTokens(tokens, limit, now) :
          /\ failed_addresses' \in Orders(S)
          /\ last_maint' = [op |-> "retry_failed_tokens", limit |-> limit, selected |-> S]
    /\ UNCHANGED << now, tokens, probed_at >>

\* What one turn of the loop of retry_failed_tokens can meet.
RetryOutcomes == { "raised", "token_data", "none" }

\* One turn of the loop: get_latest_block, which ends the task when it
\* raises, then retry_failed_token, then save_tokens or mark_token_retry.
RetryOne(outcome) ==
    /\ failed_addresses # << >>
    /\ LET address == Head(failed_addresses)
       IN  IF outcome = "raised"
           THEN /\ failed_addresses' = << >>
                /\ last_maint' = [op |-> "raised", address |-> address]
                /\ UNCHANGED << tokens, probed_at >>
           ELSE /\ failed_addresses' = Tail(failed_addresses)
                /\ tokens' = IF outcome = "token_data"
                             THEN DbSaveTokens(tokens,
                                     [ a \in {address} |-> [status |-> "token_data"] ])
                             ELSE MarkTokenRetry(tokens, address, now)
                /\ probed_at' = [probed_at EXCEPT ![address] = now]
                /\ last_maint' = [op |-> "retry_failed_token", address |-> address,
                                  at |-> now, row |-> tokens[address],
                                  previous |-> probed_at[address], outcome |-> outcome]
    /\ UNCHANGED now

\* Half the retry delay goes by.
RetryTick ==
    /\ now + HalfDelay <= MaxHours * RETRY_DELAY
    /\ now' = now + HalfDelay
    /\ UNCHANGED << tokens, maintVars >>

\* The rows a token can have when the monitor starts at time t.
TokenRows(t) ==
    { [status |-> "detected", last_retry |-> NoTime] }
      \cup [status : {"failed"}, last_retry : {NoTime} \cup { t - k * HalfDelay : k \in 0..3 }]

InitRetryAny ==
    /\ InitRpc /\ InitDb /\ InitMonitor /\ InitHistory /\ InitCall
    /\ InitNet /\ InitConc /\ InitScan /\ InitStat /\ InitCycle /\ InitDet /\ InitSelect
    /\ head = 1
    /\ now = 2 * RETRY_DELAY
    /\ wallets = << >>
    /\ tokens \in UNION { [ D -> TokenRows(now) ] : D \in SUBSET TokenAddresses }
    /\ batch_to = NoBlock
    /\ last_batch = << >>
    /\ last_maint = << >>
    /\ failed_addresses = << >>
    /\ probed_at = [ a \in TokenAddresses |-> NoTime ]

RetryFrame ==
    UNCHANGED << head, rpcVars, dbVars, monVars, histVars, callVars, selVars, logVars,
                 liveVars, concVars, scanVars, statVars, cycleVars, detVars, wallets, batch_to, last_batch >>

NextRetry ==
    \/ \E limit \in 1..MaxLimit : RetryFailedTokens(limit) /\ RetryFrame
    \/ \E outcome \in RetryOutcomes : RetryOne(outcome) /\ RetryFrame
    \/ RetryTick /\ RetryFrame

SpecRetry == InitRetryAny /\ [][NextRetry]_vars

(***************************************************************************)
(* SpecLookup: get_single_balance of get_wallet_token_balances, for any    *)
(* answers of the balanceOf calls                                          *)
(***************************************************************************)

\* What awaiting wait_for(call_contract(...), timeout=2) can give: the two
\* ways it raises, rpc_call's None, and results.
Answers == { "timeout", "exception", None, "0x", "0x0", "0x00", "0x5", "0xzz" }

\* int(result, 16): the number, or a ValueError.
ParseHex(result) ==
    IF result = "0x00" THEN [raised |-> FALSE, value |-> 0]
    ELSE IF result = "0x5" THEN [raised |-> FALSE, value |-> 5]
    ELSE [raised |-> TRUE, value |-> 0]

\* str(balance)
Str(balance) == IF balance = 0 THEN "0" ELSE "5"

\* get_token_balance: the balance as a decimal string, "0" without a result
\* or with one that is no number, None (bare except) when the call raises.
GetTokenBalance(answer) ==
    IF answer \in {"timeout", "exception"} THEN None
    ELSE IF answer = None \/ answer = "0x" \/ answer = "0x0" THEN "0"
    ELSE IF ParseHex(answer).raised THEN "0"
    ELSE Str(ParseHex(answer).value)

\* get_single_balance from the given attempt on: the loop returns with the
\* first get_token_balance that does not raise, and get_token_balance does
\* not raise.  attempts is the number of lookups made.
RECURSIVE GetSingleBalanceFrom(_, _, _)
GetSingleBalanceFrom(token_addr, answers, attempt) ==
    LET balance == GetTokenBalance(answers[attempt + 1])
    IN  IF balance # "raised"
        THEN [token_addr |-> token_addr, balance |-> balance, attempts |-> attempt + 1]
        ELSE IF attempt = RETRY_ATTEMPTS - 1
             THEN [token_addr |-> token_addr, balance |-> None, attempts |-> attempt + 1]
             ELSE GetSingleBalanceFrom(token_addr, answers, attempt + 1)

\* get_single_balance
GetSingleBalance(token_addr, answers) == GetSingleBalanceFrom(token_addr, answers, 0)

\* One get_single_balance.
Lookup ==
    /\ lookup.result = << >>
    /\ lookup' = [lookup EXCEPT !.result = GetSingleBalance(lookup.token_addr, lookup.answers)]
    /\ UNCHANGED << holdings, scan_progress, scan, last_scan >>

InitLookupAny ==
    /\ InitEnv /\ InitRpc /\ InitDb /\ InitMonitor /\ InitHistory /\ InitCall
    /\ InitProc /\ InitNet /\ InitConc /\ InitMaint /\ InitStat /\ InitCycle /\ InitDet /\ InitSelect
    /\ holdings = << >> /\ scan_progress = NoProgress /\ scan = NewScan /\ last_scan = << >>
    /\ lookup \in [token_addr : TokenAddresses,
                   answers : [1..RETRY_ATTEMPTS -> Answers],
                   result : {<< >>}]

LookupFrame ==
    UNCHANGED << envVars, rpcVars, dbVars, monVars, histVars, callVars, selVars, logVars,
                 procVars, liveVars, concVars, maintVars, statVars, cycleVars, detVars >>

NextLookup == Lookup /\ LookupFrame

SpecLookup == InitLookupAny /\ [][NextLookup]_vars

(***************************************************************************)
(* SpecScan: scan_all_wallets_simple over any wallets, old holdings and    *)
(* answers, with the interruptions run_simple_scan handles                 *)
(***************************************************************************)

\* The answers the balanceOf calls of one (wallet, token) pair can meet.
ScanAnswers == { [k \in 1..RETRY_ATTEMPTS |-> "0x5"], [k \in 1..RETRY_ATTEMPTS |-> "0x00"],
                 [k \in 1..RETRY_ATTEMPTS |-> IF k = 1 THEN "timeout" ELSE "0x5"] }

\* How the scan of one wallet can go: to its end, into the scan_timeout of
\* wait_for, or into another exception.
ScanEvents == { "ok", "timeout", "exception" }

\* get_wallet_token_balances: the tokens whose get_single_balance gave a
\* balance that is neither None nor "0".
GetWalletTokenBalances(token_addresses, answers) ==
    LET results == [ t \in token_addresses |-> GetSingleBalance(t, answers[t]) ]
        kept == { t \in token_addresses :
                    results[t].balance # None /\ results[t].balance # "0" }
    IN  [ t \in kept |-> results[t].balance ]

\* A scan_wallet_tokens_simple that does not count its errors.
ScanWalletTokensSilent(token_addresses, event, answers) ==
    IF event # "ok"
    THEN [tokens |-> << >>, errors |-> 0, checks |-> 0]
    ELSE [tokens |-> GetWalletTokenBalances(token_addresses, answers),
          errors |-> 0, checks |-> Cardinality(token_addresses)]

\* scan_wallet_tokens_simple: the balances found (every token scanned has a
\* row in tokens, so get_token_info finds each of them), nothing and one
\* more error after a timeout or an exception.
ScanWalletTokensSimple(token_addresses, event, answers) ==
    IF event # "ok"
    THEN [tokens |-> << >>, errors |-> 1, checks |-> 0]
    ELSE [tokens |-> GetWalletTokenBalances(token_addresses, answers),
          errors |-> 0, checks |-> Cardinality(token_addresses)]

\* Database.save_wallet_tokens: nothing without tokens_data, else the rows
\* of the wallet are deleted and the new ones inserted.
DbSaveWalletTokens(table, wallet_address, tokens_data) ==
    IF tokens_data = << >> THEN table
    ELSE [ w \in DOMAIN table \cup {wallet_address} |->
             IF w = wallet_address THEN tokens_data ELSE table[w] ]

\* save_wallet_tokens for the wallets of wallet_tokens, one after the other.
RECURSIVE SaveBatchHoldings(_, _, _)
SaveBatchHoldings(table, batch_wallets, wallet_tokens) ==
    IF batch_wallets = << >> THEN table
    ELSE LET w == Head(batch_wallets)
         IN  SaveBatchHoldings(
                IF w \in DOMAIN wallet_tokens
                THEN DbSaveWalletTokens(table, w, wallet_tokens[w]) ELSE table,
                Tail(batch_wallets), wallet_tokens)

\* Database.update_scan_progress(status, current_wallet, scanned, total);
\* scanned and total are << >> for None and <<n>> for a number.
UpdateScanProgress(progress, status, current_wallet, scanned, total) ==
    IF total # << >>
    THEN [row |-> TRUE, total_wallets |-> total[1],
          scanned_wallets |-> IF scanned = << >> THEN 0 ELSE scanned[1],
          current_wallet |-> current_wallet, status |-> status]
    ELSE IF ~progress.row THEN progress
    ELSE IF scanned # << >>
         THEN [progress EXCEPT !.scanned_wallets = scanned[1],
                               !.current_wallet = current_wallet, !.status = status]
         ELSE [progress EXCEPT !.current_wallet = current_wallet, !.status = status]

\* Database.get_wallets_for_scan: the rows of type 'wallet', ORDER BY
\* last_activity_block DESC; the lists it can return.
GetWalletsForScan(table) ==
    LET S == { a \in DOMAIN table : table[a].address_type = "wallet" }
    IN  { q \in Orders(S) :
            \A i, j \in DOMAIN q :
               /\ i < j => table[q[i]].last_activity_block >= table[q[j]].last_activity_block
               /\ i # j => q[i] # q[j] }

\* get_popular_tokens: the tokens of the first page (all of them here).
GetPopularTokens(table) == DOMAIN table

\* all_wallets[i:i + config.batch_size]
BatchWallets(all_wallets, i) ==
    SubSeq(all_wallets, i + 1, Min(i + SCAN_BATCH_SIZE, Len(all_wallets)))

\* self.stats['wallets_scanned'] += len(batch_wallets)
ScannedAfter(wallets_scanned, batch_wallets) == wallets_scanned + Len(batch_wallets)

\* scan_all_wallets_simple up to its loop.
ScanAllStart ==
    /\ scan.pc = "idle"
    /\ \E all_wallets \in GetWalletsForScan(wallets) :
          IF all_wallets = << >>
          THEN /\ scan' = [scan EXCEPT !.pc = "returned"]
               /\ UNCHANGED scan_progress
          ELSE /\ scan' = [scan EXCEPT !.pc = "running", !.all_wallets = all_wallets,
                                       !.popular_tokens = GetPopularTokens(tokens)]
               /\ scan_progress' = UpdateScanProgress(scan_progress, "running", None,
                                                      <<0>>, <<Len(all_wallets)>>)
    /\ last_scan' = [op |-> "start", progress_before |-> scan_progress]
    /\ UNCHANGED << holdings, lookup >>

\* One turn of the loop: scan_wallet_batch_simple, save_wallet_tokens for
\* the wallets with tokens, the statistics and the progress row.
ScanBatch(events, answers) ==
    /\ scan.pc = "running"
    /\ scan.i < Len(scan.all_wallets)
    /\ LET batch_wallets == BatchWallets(scan.all_wallets, scan.i)
           results == [ k \in DOMAIN batch_wallets |->
                          ScanWalletTokensSimple(scan.popular_tokens, events[k], answers[k]) ]
           with_tokens == { k \in DOMAIN batch_wallets : results[k].tokens # << >> }
           wallet_tokens == [ w \in { batch_wallets[k] : k \in with_tokens } |->
                                results[CHOOSE k \in with_tokens : batch_wallets[k] = w].tokens ]
           Sum(f) == LET RECURSIVE Upto(_)
                         Upto(k) == IF k = 0 THEN 0 ELSE f[k] + Upto(k - 1)
                     IN  Upto(Len(batch_wallets))
           scanned == ScannedAfter(scan.wallets_scanned, batch_wallets)
       IN  /\ holdings' = SaveBatchHoldings(holdings, batch_wallets, wallet_tokens)
           /\ scan' = [scan EXCEPT
                  !.i = scan.i + SCAN_BATCH_SIZE,
                  !.wallets_scanned = scanned,
                  !.errors = scan.errors + Sum([k \in DOMAIN batch_wallets |-> results[k].errors]),
                  !.total_balance_checks =
                      scan.total_balance_checks
                         + Sum([k \in DOMAIN batch_wallets |-> results[k].checks]),
                  !.tokens_found =
                      scan.tokens_found
                         + Sum([k \in DOMAIN batch_wallets |->
                                  Cardinality(DOMAIN results[k].tokens)])]
           /\ scan_progress' = UpdateScanProgress(scan_progress, "running", batch_wallets[1],
                                                  <<scanned>>, << >>)
           /\ last_scan' = [op |-> "batch", batch_wallets |-> batch_wallets,
                            events |-> [k \in DOMAIN batch_wallets |-> events[k]],
                            found |-> [k \in DOMAIN batch_wallets |-> results[k].tokens],
                            before |-> holdings, errors_before |-> scan.errors,
                            progress_before |-> scan_progress]
    /\ UNCHANGED lookup

\* The loop is over: the progress row says completed.
ScanAllFinish ==
    /\ scan.pc = "running"
    /\ scan.i >= Len(scan.all_wallets)
    /\ scan_progress' = UpdateScanProgress(scan_progress, "completed", None, << >>, << >>)
    /\ scan' = [scan EXCEPT !.pc = "returned"]
    /\ last_scan' = [op |-> "finish"]
    /\ UNCHANGED << holdings, lookup >>

\* run_simple_scan's handlers: a KeyboardInterrupt or an exception that
\* reaches them ends the scan while it waits, and the progress row says so.
ScanAbort(status) ==
    /\ scan.pc = "running"
    /\ scan_progress' = UpdateScanProgress(scan_progress, status, None, << >>, << >>)
    /\ scan' = [scan EXCEPT !.pc = "aborted"]
    /\ last_scan' = [op |-> "abort"]
    /\ UNCHANGED << holdings, lookup >>

\* asyncio.run answers Ctrl-C by cancelling the main task: the scan ends at
\* its await with a CancelledError, which neither handler of run_simple_scan
\* catches, and the progress row stays as it is.
ScanCancelled ==
    /\ scan.pc = "running"
    /\ scan' = [scan EXCEPT !.pc = "aborted"]
    /\ last_scan' = [op |-> "cancelled"]
    /\ UNCHANGED << scan_progress, holdings, lookup >>

\* The wallets tables of zero to MaxAccounts wallets, the older the
\* account the older its last activity.
ScanWalletTables ==
    { [ a \in { Address(k, FALSE) : k \in 1..n } |->
          [address_type |-> "wallet", last_activity_block |-> a.account] ] :
        n \in 0..MaxAccounts }

\* Both tokens are known.
ScanTokenTable == [ t \in TokenAddresses |-> [status |-> "detected", last_retry |-> NoTime] ]

\* The holdings an earlier scan can have left for the wallets of a table.
OldHoldings(table) ==
    UNION { [ D -> { [ t \in {Address(1, FALSE)} |-> "5" ] } ] : D \in SUBSET DOMAIN table }

\* The progress row an earlier scan can have left.
OldProgress ==
    { NoProgress,
      [row |-> TRUE, total_wallets |-> 1, scanned_wallets |-> 1, current_wallet |-> None,
       status |-> "completed"] }

InitScanAny ==
    /\ InitEnv /\ InitRpc /\ InitDb /\ InitMonitor /\ InitHistory /\ InitCall
    /\ InitNet /\ InitConc /\ InitMaint /\ InitStat /\ InitCycle /\ InitDet /\ InitSelect
    /\ wallets \in ScanWalletTables
    /\ tokens = ScanTokenTable
    /\ batch_to = NoBlock
    /\ last_batch = << >>
    /\ lookup = << >>
    /\ holdings \in OldHoldings(wallets)
    /\ scan_progress \in OldProgress
    /\ scan = NewScan
    /\ last_scan = << >>

ScanFrame ==
    UNCHANGED << envVars, rpcVars, dbVars, monVars, histVars, callVars, selVars, logVars,
                 procVars, liveVars, concVars, maintVars, statVars, cycleVars, detVars >>

NextScan ==
    \/ ScanAllStart /\ ScanFrame
    \/ \E events \in [1..SCAN_BATCH_SIZE -> ScanEvents],
          answers \in [1..SCAN_BATCH_SIZE -> [TokenAddresses -> ScanAnswers]] :
          ScanBatch(events, answers) /\ ScanFrame
    \/ ScanAllFinish /\ ScanFrame
    \/ \E status \in {"interrupted", "error"} : ScanAbort(status) /\ ScanFrame
    \/ ScanCancelled /\ ScanFrame

SpecScan == InitScanAny /\ [][NextScan]_vars

(***************************************************************************)
(* SpecActivity: the activity slots process_block_batch saves, for any     *)
(* batch of blocks over any stored slots                                   *)
(***************************************************************************)

\* process_block_batch's last step for the blocks from start on, with the
\* given fetch results.
SaveBatchActivity(start, data) ==
    /\ LET extracted == ExtractDataFromBlocks(data, start)
       IN  activity' = IF extracted.blocks_with_timestamps # << >>
                       THEN SaveActivityStats(activity,
                                CalculateActivityStats(extracted.blocks_with_timestamps))
                       ELSE activity
    /\ last_activity' = [before |-> activity, start |-> start, data |-> data]

\* The slots of the blocks 1..MaxActivityHead.
ActivitySlots == { TimeSlotKey(Timestamp(b)) : b \in 1..MaxActivityHead }

\* The row an earlier run can have left in a slot.
OldActivityRow == [active_wallets |-> 7, total_transactions |-> 9]

InitActivityAny ==
    /\ InitEnv /\ InitRpc /\ InitMonitor /\ InitHistory /\ InitCall
    /\ InitProc /\ InitNet /\ InitConc /\ InitMaint /\ InitScan /\ InitCycle /\ InitDet /\ InitSelect
    /\ checkpoint = NoCheckpoint
    /\ activity \in UNION { [ D -> {OldActivityRow} ] : D \in SUBSET ActivitySlots }
    /\ last_activity = << >>

ActivityFrame ==
    UNCHANGED << envVars, rpcVars, checkpoint, monVars, histVars, callVars, selVars, logVars,
                 procVars, liveVars, concVars, maintVars, scanVars, cycleVars, detVars >>

NextActivity ==
    \E start \in 1..MaxActivityHead :
       \E end \in start..Min(start + BATCH_SIZE - 1, MaxActivityHead) :
          \E data \in FetchOutcomes(start, end) :
             SaveBatchActivity(start, data) /\ ActivityFrame

SpecActivity == InitActivityAny /\ [][NextActivity]_vars

(***************************************************************************)
(* SpecCycle: monitoring_cycle after monitoring_cycle, with the cycle      *)
(* counter, the periodic maintenance and the periodic endpoint test.  The  *)
(* calls of rpc_call run step by step as in Spec; handle_new_blocks and    *)
(* the two maintenance tasks are taken by what they make of the monitor's  *)
(* own state (SpecBatch, SpecUnknown and SpecRetry have their tables).     *)
(***************************************************************************)

\* "if self.update_counter >= UPDATE_UNKNOWN_INTERVAL"
MaintenanceDue(counter) == counter >= UPDATE_UNKNOWN_INTERVAL

\* A perform_maintenance that leaves the counter as it is.
PerformMaintenanceNoReset(counter, outcome) == counter

\* perform_maintenance: update_unknown_types, retry_failed_tokens, then the
\* counter is set to 0; a task that raises leaves before the reset.
PerformMaintenance(counter, outcome) ==
    IF outcome = "returned" THEN 0 ELSE counter

\* How a step that awaits other coroutines ends.
StepOutcomes == {"returned", "raised"}

\* The except branch of monitoring_cycle: switch_rpc(force_retest=True),
\* return False.
CycleExcept(reach) ==
    /\ LET sw == SwitchRpc(current_rpc, last_rpc_test, checkpoint, TRUE, reach, now)
       IN  /\ current_rpc' = sw.cur
           /\ last_rpc_test' = sw.last
           /\ checkpoint' = sw.ck
           /\ armed' = (armed /\ ~sw.tested)
           /\ cycle' = [cycle EXCEPT !.pc = "sleep", !.ret = FALSE,
                                     !.tested = @ \/ sw.tested,
                                     !.maint = IF @ = "started" THEN "raised" ELSE @]
    /\ UNCHANGED << rpc_failures, streak >>

\* monitoring_cycle is entered and calls get_latest_block().
CycleBegin ==
    /\ cycle.pc = "cycle"
    /\ CallStart
    /\ cycle' = [NoCycle EXCEPT !.pc = "latest",
                                !.stale = ShouldRetestRpc(last_rpc_test, now)]
    /\ UNCHANGED << now, rpcVars, checkpoint, current_block, streak, armed,
                    update_counter, completed >>

\* Whether the step of rpc_call about to run tests the endpoints.
CallTests ==
    \/ call.pc = "rotate"
    \/ call.pc = "top" /\ call.attempt < 2 /\ current_rpc = None

InCycleCall == cycle.pc \in {"latest", "blocks", "maintenance"}

\* The steps of an rpc_call made by the cycle.
CycleCallTop(reach) ==
    /\ InCycleCall
    /\ CallTop(reach)
    /\ cycle' = [cycle EXCEPT !.tested = @ \/ CallTests]
    /\ UNCHANGED << now, current_block, update_counter, completed >>

CycleCallPost(outcome) ==
    /\ InCycleCall
    /\ CallPost(outcome)
    /\ UNCHANGED << now, current_block, update_counter, cycle, completed >>

CycleCallRotate(reach) ==
    /\ InCycleCall
    /\ CallRotate(reach)
    /\ cycle' = [cycle EXCEPT !.tested = @ \/ CallTests]
    /\ UNCHANGED << now, current_block, update_counter, completed >>

\* get_latest_block() has answered `latest` (0 when the call gave nothing):
\* "return False", or the first-time initialisation and "return True", or
\* handle_new_blocks, or nothing new.
CycleHead(latest) ==
    /\ cycle.pc = "latest"
    /\ call.pc = "done"
    /\ call' = NoCall
    /\ IF latest = NoBlock
       THEN /\ cycle' = [cycle EXCEPT !.pc = "sleep", !.ret = FALSE]
            /\ UNCHANGED << checkpoint, current_block >>
       ELSE IF current_block = NoBlock
       THEN /\ current_block' = latest
            /\ checkpoint' = SaveCheckpoint(checkpoint, latest, None)
            /\ cycle' = [cycle EXCEPT !.pc = "sleep", !.ret = TRUE]
       ELSE /\ cycle' = [cycle EXCEPT !.pc = IF latest > current_block
                                             THEN "blocks" ELSE "count",
                                      !.latest = latest]
            /\ UNCHANGED << checkpoint, current_block >>
    /\ UNCHANGED << now, rpcVars, streak, armed, update_counter, completed >>

\* get_latest_block() raises on the answer it got.
CycleHeadRaises(reach) ==
    /\ cycle.pc = "latest"
    /\ call.pc = "done"
    /\ call.ret
    /\ call' = NoCall
    /\ CycleExcept(reach)
    /\ UNCHANGED << now, current_block, update_counter, completed >>

\* handle_new_blocks and the maintenance tasks call rpc_call (blocks,
\* codes, token probes): at most MaxCycleCalls times in a cycle.
CycleCall ==
    /\ cycle.pc \in {"blocks", "maintenance"}
    /\ cycle.calls < MaxCycleCalls
    /\ CallStart
    /\ cycle' = [cycle EXCEPT !.calls = @ + 1]
    /\ UNCHANGED << now, rpcVars, checkpoint, current_block, streak, armed,
                    update_counter, completed >>

CycleCallReturn ==
    /\ cycle.pc \in {"blocks", "maintenance"}
    /\ CallReturn
    /\ UNCHANGED << now, current_block, update_counter, cycle, completed >>

\* handle_new_blocks ends: every batch up to latest is processed and the
\* checkpoint saved, or process_block_batch raises in the first batch.
CycleBlocks(outcome, reach) ==
    /\ cycle.pc = "blocks"
    /\ call.pc = "idle"
    /\ IF outcome = "returned"
       THEN /\ current_block' = cycle.latest
            /\ checkpoint' = SaveCheckpoint(checkpoint, cycle.latest, None)
            /\ cycle' = [cycle EXCEPT !.pc = "count"]
            /\ UNCHANGED << rpcVars, streak, armed >>
       ELSE /\ CycleExcept(reach)
            /\ UNCHANGED current_block
    /\ UNCHANGED << now, call, update_counter, completed >>

\* "self.update_counter += 1" and the test of the interval.
CycleCount ==
    /\ cycle.pc = "count"
    /\ update_counter < MaxCounter
    /\ update_counter' = update_counter + 1
    /\ cycle' = [cycle EXCEPT !.counted = TRUE,
                              !.counter = update_counter + 1,
                              !.maint = IF MaintenanceDue(update_counter + 1)
                                        THEN "started" ELSE "none",
                              !.pc = IF MaintenanceDue(update_counter + 1)
                                     THEN "maintenance" ELSE "retest"]
    /\ UNCHANGED << now, rpcVars, checkpoint, current_block, callVars, completed >>

\* perform_maintenance ends.
CycleMaintenance(outcome, reach) ==
    /\ cycle.pc = "maintenance"
    /\ call.pc = "idle"
    /\ update_counter' = PerformMaintenance(update_counter, outcome)
    /\ IF outcome = "returned"
       THEN /\ cycle' = [cycle EXCEPT !.pc = "retest", !.maint = "returned"]
            /\ UNCHANGED << rpcVars, checkpoint, streak, armed >>
       ELSE CycleExcept(reach)
    /\ UNCHANGED << now, current_block, call, completed >>

\* "if should_retest_rpc(): switch_rpc()", then "return True".
CycleRetest(reach) ==
    /\ cycle.pc = "retest"
    /\ LET sw == IF ShouldRetestRpc(last_rpc_test, now)
                 THEN SwitchRpc(current_rpc, last_rpc_test, checkpoint, FALSE, reach, now)
                 ELSE [ret |-> TRUE, tested |-> FALSE, cur |-> current_rpc,
                       last |-> last_rpc_test, ck |-> checkpoint]
       IN  /\ current_rpc' = sw.cur
           /\ last_rpc_test' = sw.last
           /\ checkpoint' = sw.ck
           /\ armed' = (armed /\ ~sw.tested)
           /\ cycle' = [cycle EXCEPT !.pc = "sleep", !.ret = TRUE,
                                     !.tested = @ \/ sw.tested,
                                     !.nth = completed + 1]
    /\ completed' = IF cycle.maint = "returned" THEN 0 ELSE completed + 1
    /\ UNCHANGED << now, rpc_failures, current_block, call, streak, update_counter >>

\* The clock of SpecCycle moves in steps of just over a retest interval.
Epoch == RPC_RETEST_INTERVAL + 1

MaxCycleTime == StartTime + MaxCycleEpochs * Epoch

\* run(): asyncio.sleep(CHECK_INTERVAL) and the next cycle; the sleep is far
\* shorter than an epoch (d = 0) or is the one that completes an epoch.
CycleSleep(d) ==
    /\ cycle.pc = "sleep"
    /\ now + d <= MaxCycleTime
    /\ now' = now + d
    /\ cycle' = [cycle EXCEPT !.pc = "cycle"]
    /\ UNCHANGED << rpcVars, checkpoint, current_block, callVars, update_counter,
                    completed >>

\* The monitor once initialize() and ensure_rpc_connection() have run on a
\* new database with every provider up.
InitCycleAny ==
    /\ InitEnv /\ InitHistory /\ InitCall
    /\ pc = "cycle"
    /\ current_block = NoBlock
    /\ latest_block = NoBlock
    /\ start_block = NoBlock
    /\ end_block = NoBlock
    /\ blocks_data = << >>
    /\ InitProc /\ InitNet /\ InitConc /\ InitMaint /\ InitScan /\ InitStat
    /\ InitCycle /\ InitDet /\ InitSelect
    /\ activity = << >>
    /\ rpc_failures = [u \in Urls |-> 0]
    /\ LET sw == SwitchRpc(None, 0, NoCheckpoint, TRUE, Urls, StartTime)
       IN  /\ current_rpc = sw.cur
           /\ last_rpc_test = sw.last
           /\ checkpoint = sw.ck

CycleFrame ==
    UNCHANGED << head, activity, pc, latest_block, start_block, end_block, blocks_data,
                 histVars, switch_log, selVars, logVars, procVars, liveVars, concVars,
                 maintVars, scanVars, statVars, detVars >>

NextCycle ==
    \/ CycleBegin /\ CycleFrame
    \/ \E reach \in Outages : CycleCallTop(reach) /\ CycleFrame
    \/ \E outcome \in Outcomes : CycleCallPost(outcome) /\ CycleFrame
    \/ \E reach \in Outages : CycleCallRotate(reach) /\ CycleFrame
    \/ \E latest \in IF call.ret THEN 1..MaxCycleHead ELSE {NoBlock} :
           CycleHead(latest) /\ CycleFrame
    \/ \E reach \in Outages : CycleHeadRaises(reach) /\ CycleFrame
    \/ CycleCall /\ CycleFrame
    \/ CycleCallReturn /\ CycleFrame
    \/ \E outcome \in StepOutcomes, reach \in Outages :
           CycleBlocks(outcome, reach) /\ CycleFrame
    \/ CycleCount /\ CycleFrame
    \/ \E outcome \in StepOutcomes, reach \in Outages :
           CycleMaintenance(outcome, reach) /\ CycleFrame
    \/ \E reach \in Outages : CycleRetest(reach) /\ CycleFrame
    \/ \E d \in {0, Epoch} : CycleSleep(d) /\ CycleFrame

SpecCycle == InitCycleAny /\ [][NextCycle]_vars

(***************************************************************************)
(* SpecDetect: one call of a function of the detection layer               *)
(* (extract_addresses_from_block, check_if_token, detect_tokens_batch) on  *)
(* any arguments and any answers of the provider                           *)
(***************************************************************************)

\* The spellings of the accounts 1..MaxAccounts, and None.
Spellings == { Address(n, mixed) : n \in 1..MaxAccounts, mixed \in BOOLEAN }

\* Lists of at most MaxTxs transactions.
TxLists ==
    UNION { [ 1..n -> [from : Spellings \cup {NoAddress}, to : Spellings \cup {NoAddress}] ] :
              n \in 0..MaxTxs }

\* ERC20_FUNCTIONS, in the order of the dict (config/settings.py).
ERC20_FUNCTIONS == << "name", "symbol", "decimals", "totalSupply" >>

\* What an eth_call comes back as in check_if_token: None (rpc_call gave
\* up), an empty string, "0x", a 32-byte word, an ABI-encoded string
\* (longer than 66 characters), text that is no hex number, or an exception.
CallAnswers == { None, "", "0x", "word", "string", "garbage", "raised" }

\* A test that lets "0x" through.
IsEmptyOnlyFalsy(result) == result = None \/ result = ""

\* "if not result or result == '0x'"
IsEmpty(result) == result = None \/ result = "" \/ result = "0x"

\* _decode_string: the decoded text of a long enough answer, "Unknown"
\* for anything else.
DecodeString(hex_data) ==
    IF hex_data = "string" THEN "decoded" ELSE "Unknown"

\* _parse_function_result: a string for name and symbol; int(result, 16)
\* (0 for "0x") for decimals and totalSupply, None when it raises.
ParseFunctionResult(func_name, result) ==
    IF func_name \in {"name", "symbol"} THEN DecodeString(result)
    ELSE IF func_name \in {"decimals", "totalSupply"}
    THEN IF result = "garbage" \/ result = "" THEN None ELSE "number"
    ELSE None

\* check_if_token from the i-th function on: token_data when the loop ends
\* with four entries, None (<< >>) at the first answer that is empty, that
\* raises or that does not parse; calls counts the eth_calls made.
RECURSIVE CheckIfTokenFrom(_, _, _)
CheckIfTokenFrom(i, answers, token_data) ==
    IF i > Len(ERC20_FUNCTIONS)
    THEN [token_data |-> IF Cardinality(DOMAIN token_data) = 4 THEN token_data ELSE << >>,
          calls |-> i - 1]
    ELSE LET func_name == ERC20_FUNCTIONS[i]
             result == answers[func_name]
         IN  IF result = "raised" \/ IsEmpty(result)
                \/ ParseFunctionResult(func_name, result) = None
             THEN [token_data |-> << >>, calls |-> i]
             ELSE CheckIfTokenFrom(i + 1, answers,
                      [ f \in DOMAIN token_data \cup {func_name} |->
                          IF f = func_name THEN ParseFunctionResult(func_name, result)
                          ELSE token_data[f] ])

\* check_if_token(contract_address), the contract answering `answers`.
CheckIfToken(answers) == CheckIfTokenFrom(1, answers, << >>)

ProbeJobs ==
    { [op |-> "probe", answers |-> a] :
        a \in [ { ERC20_FUNCTIONS[i] : i \in 1..Len(ERC20_FUNCTIONS) } -> CallAnswers ] }

\* One call of check_if_token.
Probe ==
    /\ job # << >>
    /\ job.op = "probe"
    /\ given = << >>
    /\ given' = CheckIfToken(job.answers)
    /\ UNCHANGED job

\* get_contract_creator: the "from" of the creation it found in the blocks
\* it searched, "Unknown" when it found none or a call raised.
GetContractCreator(found) ==
    IF found = None THEN "Unknown" ELSE found

\* A detect_single that looks the creator up before it probes.
DetectSingleCreatorFirst(address, answers, found) ==
    LET token_data == CheckIfToken(answers).token_data
        creator == GetContractCreator(found)
    IN  [address |-> address,
         token_data |-> IF token_data # << >>
                        THEN [ f \in DOMAIN token_data \cup {"creator"} |->
                                 IF f = "creator" THEN creator ELSE token_data[f] ]
                        ELSE << >>,
         creator_called |-> TRUE]

\* detect_single(address): check_if_token, and for a token
\* get_contract_creator, whose result becomes token_data['creator'].
DetectSingle(address, answers, found) ==
    LET token_data == CheckIfToken(answers).token_data
    IN  IF token_data # << >>
        THEN [address |-> address,
              token_data |-> [ f \in DOMAIN token_data \cup {"creator"} |->
                                 IF f = "creator" THEN GetContractCreator(found)
                                 ELSE token_data[f] ],
              creator_called |-> TRUE]
        ELSE [address |-> address, token_data |-> << >>, creator_called |-> FALSE]

\* detect_tokens_batch(contract_addresses, current_block): one detect_single
\* per address; tokens_found holds the results with token data.
\* creator_calls are the addresses get_contract_creator was called for.
DetectTokens(contract_addresses, answers, creators) ==
    LET results == { DetectSingle(a, answers[a], creators[a]) : a \in contract_addresses }
        found == { r \in results : r.token_data # << >> }
    IN  [tokens_found |-> [ a \in { r.address : r \in found } |->
                              DetectSingle(a, answers[a], creators[a]).token_data ],
         creator_calls |-> { r.address : r \in { x \in results : x.creator_called } }]

\* The contracts of a batch.
Contracts == { Address(n, FALSE) : n \in 1..MaxAccounts }

\* How a contract answers the four calls: as a token, as a contract
\* without totalSupply, as a contract whose first call raises.
AnswersOfToken ==
    [name |-> "string", symbol |-> "string", decimals |-> "word", totalSupply |-> "word"]

ProbeProfiles ==
    { AnswersOfToken, [AnswersOfToken EXCEPT !.totalSupply = "0x"],
      [AnswersOfToken EXCEPT !.name = "raised"] }

DetectJobs ==
    { [op |-> "detect", contract_addresses |-> c, answers |-> a, creators |-> k] :
        c \in SUBSET Contracts, a \in [Contracts -> ProbeProfiles],
        k \in [Contracts -> {None, "0xCreator"}] }

\* One call of detect_tokens_batch.
DetectBatch ==
    /\ job # << >>
    /\ job.op = "detect"
    /\ given = << >>
    /\ given' = DetectTokens(job.contract_addresses, job.answers, job.creators)
    /\ UNCHANGED job

ExtractJobs ==
    { [op |-> "extract", block |-> [kind |-> "block", transactions |-> txs]] : txs \in TxLists }
      \cup { [op |-> "extract", block |-> [kind |-> k, transactions |-> << >>]] :
                k \in {"None", "no_transactions"} }

\* extract_addresses_from_block(block_data)
Extract ==
    /\ job # << >>
    /\ job.op = "extract"
    /\ given = << >>
    /\ given' = ExtractAddresses(job.block)
    /\ UNCHANGED job

InitDetectAny ==
    /\ InitEnv /\ InitRpc /\ InitDb /\ InitMonitor /\ InitHistory /\ InitCall
    /\ InitProc /\ InitNet /\ InitConc /\ InitMaint /\ InitScan /\ InitStat
    /\ InitCycle /\ InitSelect
    /\ job \in ExtractJobs \cup ProbeJobs \cup DetectJobs
    /\ given = << >>

DetectFrame ==
    UNCHANGED << envVars, rpcVars, dbVars, monVars, histVars, callVars, selVars, logVars,
                 procVars, liveVars, concVars, maintVars, scanVars, statVars, cycleVars >>

NextDetect ==
    \/ Extract /\ DetectFrame
    \/ Probe /\ DetectFrame
    \/ DetectBatch /\ DetectFrame

SpecDetect == InitDetectAny /\ [][NextDetect]_vars

(***************************************************************************)
(* Properties of the monitor (Spec)                                        *)
(***************************************************************************)

\* The block of the checkpoint row (NoBlock without a row or with a NULL block).
SavedBlock == GetCheckpoint(checkpoint)[1]

\* The blocks between the block monitoring started at and the checkpoint.
Ingested == { b \in Blocks : first_block < b /\ b <= SavedBlock }

\* The blocks of the batch fetched last whose fetch gave a block.
Fetched(start) ==
    { start + i - 1 : i \in { j \in 1..Len(blocks_data) : blocks_data[j].kind = "block" } }

\* The fetch of some block of the batch raised or gave nothing.
SomeFetchFailed == \E i \in 1..Len(blocks_data) : blocks_data[i].kind # "block"

RECURSIVE TxCount(_)
TxCount(S) ==
    IF S = {} THEN 0
    ELSE LET b == CHOOSE x \in S : TRUE
         IN  Len(Transactions(b)) + TxCount(S \ {b})

\* The activity table once the slots of the blocks S that have participants
\* are replaced by what those blocks alone give.
ActivityFrom(table, S) ==
    LET active == { b \in S : TxAddresses(Transactions(b)) # {} }
        slots == { TimeSlotKey(Timestamp(b)) : b \in active }
        InSlot(k) == { b \in active : TimeSlotKey(Timestamp(b)) = k }
    IN  [ k \in DOMAIN table \cup slots |->
            IF k \in slots
            THEN [active_wallets |->
                      Cardinality(UNION { TxAddresses(Transactions(b)) : b \in InSlot(k) }),
                  total_transactions |-> TxCount(InSlot(k))]
            ELSE table[k] ]

\* C1: no step of the monitor (cycles, batches with failed fetches, endpoint
\* switches, restarts) lowers the block of the saved checkpoint.
C1_CheckpointNeverDecreases ==
    [][GetCheckpoint(checkpoint')[1] >= GetCheckpoint(checkpoint)[1]]_vars

\* C1 witness: after a restart and a batch with a failed fetch, the
\* checkpoint has moved on past the block monitoring started at.
C1_Witness ==
    /\ crashes > 0
    /\ ~resumed
    /\ skipped # {}
    /\ current_rpc # None
    /\ SavedBlock > first_block
    /\ first_block # NoBlock

\* C2 as the claim states it: every block between the starting block and the
\* checkpoint was fetched and had its addresses persisted.
C2_Original ==
    first_block # NoBlock => Ingested \subseteq persisted

\* C2 as amended: every block between the starting block and the checkpoint
\* belongs to a batch that went through its persistence steps, in which it
\* was either fetched and persisted or skipped because its fetch failed.
C2_NoBlockLeftOut ==
    first_block # NoBlock =>
        /\ Ingested \subseteq (persisted \cup skipped)
        /\ persisted \cap skipped = {}

\* C2 witness: after a restart the checkpoint covers a block that was
\* persisted and a block that was skipped.
C2_Witness ==
    /\ crashes > 0
    /\ Ingested \cap persisted # {}
    /\ Ingested \cap skipped # {}

\* C3: a step that moves the checkpoint to a batch's end_block is taken with
\* the three persistence steps of the batch done and no exception raised, and
\* the step in which process_block_batch raises leaves the checkpoint alone.
C3_CheckpointAfterPersistence ==
    [][ /\ (SavedBlock' # SavedBlock /\ current_block # NoBlock) =>
              /\ PersistenceSteps \subseteq steps
              /\ "raised" \notin steps
              /\ SavedBlock' = end_block
        /\ ("raised" \in steps' /\ "raised" \notin steps) =>
              /\ SavedBlock' = SavedBlock
              /\ SavedBlock' < end_block
      ]_vars

\* C3 witness: a second batch raised after its addresses were saved, and the
\* checkpoint stays at the end of the first batch.
C3_Witness ==
    /\ pc = "sleep"
    /\ "raised" \in steps
    /\ "addresses" \in steps
    /\ batches # << >>
    /\ SavedBlock = start_block - 1
    /\ SavedBlock < end_block

\* C4: after a restart with a saved checkpoint, current_block is the saved
\* block, handle_new_blocks starts at the block after it, and the blocks
\* past the checkpoint that already had side effects persisted (the ones a
\* restart fetches again) number at most BATCH_SIZE.
C4_ResumeAtCheckpoint ==
    /\ (resumed /\ pc # "boot" /\ SavedBlock # NoBlock) => current_block = SavedBlock
    /\ (resumed /\ pc = "batch") => start_block = SavedBlock + 1
    /\ Cardinality({ b \in persisted : b > SavedBlock }) <= BATCH_SIZE

\* C4 witness: restarted after a crash in the middle of a batch whose
\* addresses were saved, the monitor enters handle_new_blocks at the block
\* after the checkpoint, which it had persisted before.
C4_Witness ==
    /\ resumed
    /\ pc = "batch"
    /\ SavedBlock # NoBlock
    /\ start_block \in persisted
    /\ start_block = SavedBlock + 1

\* C5: a batch in which a fetch raised or gave nothing goes on to return: the
\* step that saves its activity replaces the slots of the fetched blocks by
\* what the fetched blocks alone give and touches no other slot, and once
\* the batch has returned the checkpoint is its end_block.
C5_FailedFetchSkipped ==
    /\ [][ (pc = "activity" /\ pc' = "checkpoint" /\ SomeFetchFailed) =>
               activity' = ActivityFrom(activity, Fetched(start_block)) ]_vars
    /\ []( (pc = "batch" /\ batches # << >> /\ SomeFetchFailed) =>
               /\ PersistenceSteps \subseteq steps
               /\ SavedBlock = batches[Len(batches)][2]
               /\ SavedBlock = end_block )

\* C5 witness: a batch of BATCH_SIZE blocks with one failed fetch and one
\* fetched block with participants has returned and its activity is saved.
C5_Witness ==
    /\ pc = "batch"
    /\ batches # << >>
    /\ SomeFetchFailed
    /\ Len(blocks_data) = BATCH_SIZE
    /\ \E b \in Fetched(batches[Len(batches)][1]) :
          /\ TxAddresses(Transactions(b)) # {}
          /\ TimeSlotKey(Timestamp(b)) \in DOMAIN activity
    /\ SavedBlock = end_block

\* C6: the batches of one handle_new_blocks call follow one another from the
\* block after the checkpoint, each of 1 to BATCH_SIZE blocks and none past
\* the head the cycle read, and when the call returns they end at that
\* head, which is then the checkpoint.
C6_BatchesCoverToHead ==
    /\ \A i \in 1..Len(batches) :
          /\ batches[i][1] = (IF i = 1 THEN entry_block + 1 ELSE batches[i - 1][2] + 1)
          /\ batches[i][1] <= batches[i][2]
          /\ batches[i][2] - batches[i][1] + 1 <= BATCH_SIZE
          /\ batches[i][2] <= latest_block
    /\ (pc = "batch" /\ batches = << >>) =>
          /\ entry_block = SavedBlock
          /\ latest_block > entry_block
    /\ (pc = "retest" /\ batches # << >>) =>
          /\ batches[Len(batches)][2] = latest_block
          /\ SavedBlock = latest_block
          /\ current_block = latest_block

\* C6 witness: handle_new_blocks has returned after a full batch and a
\* shorter one.
C6_Witness ==
    /\ pc = "retest"
    /\ Len(batches) = 2
    /\ batches[1][2] - batches[1][1] + 1 = BATCH_SIZE
    /\ batches[2][2] - batches[2][1] + 1 < BATCH_SIZE

(***************************************************************************)
(* Properties of find_best_rpc (SpecSelect)                                *)
(***************************************************************************)

\* Indices of the endpoints whose test succeeded.
SelWorking == { i \in 1..Len(sel_endpoints) : sel_tests[i].success }

\* C7: find_best_rpc returns a working endpoint whose (priority, latency)
\* no working endpoint beats in lexicographic order, and returns none
\* exactly when no endpoint works.
C7_SelectBestIsLexMin ==
    sel_best.name # "unset" =>
        /\ (sel_best.url = None) <=> (SelWorking = {})
        /\ SelWorking # {} =>
              \E i \in SelWorking :
                  /\ sel_best.url = sel_endpoints[i].url
                  /\ sel_best.priority = sel_endpoints[i].priority
                  /\ sel_best.latency = sel_tests[i].latency
                  /\ \A j \in SelWorking :
                        \/ sel_endpoints[i].priority < sel_endpoints[j].priority
                        \/ /\ sel_endpoints[i].priority = sel_endpoints[j].priority
                           /\ sel_tests[i].latency <= sel_tests[j].latency

\* C7 witness: the winner is not the first working endpoint of the list: it
\* ties on priority with an earlier one and wins on latency, while another
\* endpoint is unreachable.
C7_Witness ==
    /\ sel_best.name # "unset"
    /\ sel_best.url # None
    /\ \E i, j \in SelWorking :
          /\ j < i
          /\ sel_best.url = sel_endpoints[i].url
          /\ sel_endpoints[j].priority = sel_endpoints[i].priority
          /\ sel_tests[j].latency > sel_tests[i].latency
    /\ SelWorking # 1..Len(sel_endpoints)

(***************************************************************************)
(* Properties of switch_rpc (SpecRotate)                                   *)
(***************************************************************************)

\* The endpoint of reach with the smallest priority number, None if reach is empty.
FirstByPriority(reach) ==
    IF reach = {} THEN None
    ELSE LET i == CHOOSE i \in 1..Len(RPC_ENDPOINTS) :
                    /\ RPC_ENDPOINTS[i].url \in reach
                    /\ \A j \in 1..Len(RPC_ENDPOINTS) :
                          RPC_ENDPOINTS[j].url \in reach =>
                              RPC_ENDPOINTS[i].priority <= RPC_ENDPOINTS[j].priority
         IN  RPC_ENDPOINTS[i].url

\* Two consecutive switch_rpc(force_retest=False) calls less than a retest
\* interval apart.
TwoUnforcedCalls ==
    /\ Len(switch_log) = 2
    /\ ~switch_log[1].force
    /\ ~switch_log[2].force
    /\ switch_log[2].t - switch_log[1].t < RPC_RETEST_INTERVAL

\* C8 as claimed: two consecutive unforced calls within the retest
\* interval test the endpoints at most once in total, from any state.
C8_Original ==
    TwoUnforcedCalls => ~(switch_log[1].tested /\ switch_log[2].tested)

\* C8 as amended: two consecutive unforced calls within the retest interval
\* test the endpoints at most once in total when the first call returns
\* true (an endpoint is active after it).
C8_AtMostOneTestAfterSuccess ==
    (TwoUnforcedCalls /\ switch_log[1].ret) =>
        ~(switch_log[1].tested /\ switch_log[2].tested)

\* C8 witness: the first call ran the test and returned true, the second
\* one some time later (within the interval) is answered from the cache.
C8_Witness ==
    /\ TwoUnforcedCalls
    /\ switch_log[1].tested /\ switch_log[1].ret
    /\ switch_log[2].t > switch_log[1].t
    /\ ~switch_log[2].tested /\ switch_log[2].ret

\* The last switch_rpc call made by a caller; current_rpc and last_rpc_test
\* are as it left them.
LastSwitch == switch_log[Len(switch_log)]

\* switch_rpc returns false only after a full test that found no endpoint;
\* a full test that finds one returns true, activates the best one and
\* refreshes last_rpc_test.
SwitchOutcome ==
    /\ ~LastSwitch.ret => (LastSwitch.tested /\ LastSwitch.reach = {})
    /\ (LastSwitch.tested /\ LastSwitch.reach # {}) =>
          /\ LastSwitch.ret
          /\ current_rpc = FirstByPriority(LastSwitch.reach)
          /\ last_rpc_test = LastSwitch.t

\* C9 as claimed: the above, and every full test refreshes last_rpc_test.
C9_Original ==
    switch_log # << >> =>
        /\ SwitchOutcome
        /\ LastSwitch.tested => last_rpc_test = LastSwitch.t

\* C9 as amended: the above, and a full test that finds no endpoint leaves
\* last_rpc_test as it was.
C9_SwitchOutcome ==
    switch_log # << >> =>
        /\ SwitchOutcome
        /\ (LastSwitch.tested /\ LastSwitch.reach = {}) =>
              last_rpc_test = LastSwitch.last0

\* C9 witness: a full test found endpoints while a worse one was active,
\* and switched to the best.
C9_Witness ==
    /\ switch_log # << >>
    /\ LastSwitch.tested /\ LastSwitch.ret
    /\ LastSwitch.cur0 \notin {None, current_rpc}
    /\ Cardinality(LastSwitch.reach) > 1
    /\ last_rpc_test = LastSwitch.t

(***************************************************************************)
(* Properties of rpc_call (SpecRpc)                                        *)
(***************************************************************************)

\* C10: once requests sent to the active endpoint have failed
\* RPC_MAX_FAILURES times in a row, no endpoint is active, and no request
\* is sent before a full test of the endpoints has run.
C10_ThresholdForcesRotation ==
    armed => (current_rpc = None /\ call.pc # "post")

\* C10 witness: rpc_call has returned after the failure that completed the
\* streak, leaving no active endpoint to the next call.
C10_Witness ==
    /\ armed
    /\ call.pc = "idle"
    /\ \E u \in Urls : streak[u] >= RPC_MAX_FAILURES /\ rpc_failures[u] >= RPC_MAX_FAILURES

(***************************************************************************)
(* Properties of rpc_call (SpecCall)                                       *)
(***************************************************************************)

\* The positions of the trace at which the request was sent.
Sent == { i \in 1..Len(call_log) : call_log[i] \in Posts }

LastEvent == IF call_log = << >> THEN "" ELSE call_log[Len(call_log)]

\* C11: a call made while no endpoint is active runs a full test of the
\* endpoints before it sends anything, and when the test finds no endpoint
\* the call ends there with None, nothing sent.
C11_NoActiveEndpointRotatesFirst ==
    (call_log # << >> /\ call_log[1] = "start_none") =>
        /\ Len(call_log) >= 2 => call_log[2] \in {"test_found", "test_none"}
        /\ (Len(call_log) >= 2 /\ call_log[2] = "test_none") =>
               /\ Len(call_log) = 2
               /\ call.pc = "done"
               /\ ~call.ret
               /\ current_rpc = None

C11_Witness ==
    /\ call_log = << "start_none", "test_none" >>
    /\ call.pc = "done"

\* C12: the quota error clears the active endpoint and the call tries
\* again without the retry counting as one of its two attempts: a call
\* gives up for want of attempts only after two requests that met something
\* else than the quota error.
C12_Original ==
    \A i \in 1..Len(call_log) :
        call_log[i] = "giveup" =>
            Cardinality({ j \in Sent : j < i /\ call_log[j] # "post_quota" }) >= 2

\* C13: a provider error other than the quota error ends the call at once
\* with None: nothing more is sent and the active endpoint stays as it was.
C13_ProviderErrorAborts ==
    [][ /\ (call_log' = Append(call_log, "post_error")) =>
             /\ call'.pc = "done"
             /\ ~call'.ret
             /\ current_rpc' = current_rpc
             /\ current_rpc' # None
        /\ LastEvent = "post_error" => call_log' \in {call_log, << >>}
      ]_vars

C13_Witness ==
    /\ LastEvent = "post_error"
    /\ call.pc = "done"
    /\ Len(call_log) > 3

\* C14: whatever the answers and the rotations, a call sends its request
\* at most twice and is over within seven steps; it returns a result only
\* when its last request was answered, so after a second failed request it
\* returns None.
C14_AtMostTwoRequests ==
    /\ Cardinality(Sent) <= 2
    /\ Len(call_log) <= 7
    /\ call.pc = "done" => (call.ret <=> LastEvent = "post_ok")
    /\ call.pc \in {"top", "post", "rotate"} => call_log # << >>

C14_Witness ==
    /\ call.pc = "done"
    /\ ~call.ret
    /\ Cardinality({ i \in Sent : call_log[i] # "post_ok" }) = 2
    /\ "post_quota" \in { call_log[i] : i \in Sent }

(***************************************************************************)
(* Properties of the address processing (SpecBatch)                        *)
(***************************************************************************)

\* A batch has been processed.
BatchDone == last_batch # << >>

\* C15: classify_addresses_batch returns one entry for each address it was
\* given and for no other: "unknown" where the bytecode fetch failed,
\* "wallet" for the empty bytecode and "contract" for any other; a failed
\* fetch takes nothing from the entries of the other addresses.
C15_OneEntryPerAddress ==
    (BatchDone /\ last_batch.classified # {}) =>
        /\ DOMAIN last_batch.address_types = last_batch.classified
        /\ \A a \in last_batch.classified :
              last_batch.address_types[a] =
                  CASE last_batch.codes[a] = None -> "unknown"
                    [] last_batch.codes[a] = "0x" -> "wallet"
                    [] OTHER -> "contract"

C15_Witness ==
    /\ BatchDone
    /\ \E a, b \in last_batch.classified :
          /\ last_batch.codes[a] = None
          /\ last_batch.codes[b] # None
          /\ last_batch.address_types[b] = "contract"

\* The addresses the last batch classified as contracts and whose token
\* probe was positive.
TokenContracts ==
    { a \in DOMAIN last_batch.address_types :
        last_batch.address_types[a] = "contract" /\ a \in last_batch.positive }

\* C16: after a batch, an address it classified as a contract and probed as
\* a token has a wallets row of type contract and a tokens row of status
\* detected, both under the lower-case spelling of the address.
C16_ContractTokenRoundTrip ==
    BatchDone =>
        \A a \in TokenContracts :
            /\ a.mixed_case = FALSE
            /\ a \in DOMAIN wallets
            /\ wallets[a].address_type = "contract"
            /\ wallets[a].last_activity_block = last_batch.end
            /\ a \in DOMAIN tokens
            /\ tokens[a].status = "detected"

C16_Witness ==
    /\ BatchDone
    /\ TokenContracts # {}
    /\ \E a \in last_batch.classified : a \notin TokenContracts

\* C17: after process_block_batch(start, end), every participant address
\* of the fetched blocks, new or known, has a wallets row whose
\* last_activity_block is end.
C17_Original ==
    BatchDone =>
        \A a \in last_batch.all_addresses :
            /\ a \in DOMAIN wallets
            /\ wallets[a].last_activity_block = last_batch.end

\* C18: the addresses a batch classifies are the participants that had no
\* wallets row of type wallet or contract when the batch began: an address
\* stored as wallet or contract is not classified again.
C18_OnlyNewAddressesClassified ==
    BatchDone =>
        /\ last_batch.classified = last_batch.all_addresses \ last_batch.known
        /\ \A a \in last_batch.known : a \notin DOMAIN last_batch.codes

C18_Witness ==
    /\ BatchDone
    /\ last_batch.known # {}
    /\ last_batch.classified # {}
    /\ \E a \in last_batch.classified : a \in DOMAIN wallets

(***************************************************************************)
(* Properties of the monitor's error handling (Spec)                       *)
(***************************************************************************)

\* The cycle in progress met an exception.
CycleRaised == steps \cap {"raised", "latest_raised"} # {}

SettledWithGood ==
    /\ net_changes = MaxNetChanges
    /\ \E u \in Urls : net[u] = "good"

\* C19: once the providers keep their behaviour and at least one of them is
\* reachable and answers correctly, a checkpoint the chain head is ahead of
\* is eventually advanced.
C19_Original ==
    \A n \in 1..MaxHead :
        (SettledWithGood /\ SavedBlock = n /\ head > n) ~> (SavedBlock > n)

(***************************************************************************)
(* Properties of the gathered calls (SpecConc)                             *)
(***************************************************************************)

\* Every gathered call has returned.
AllReturned == \A i \in TaskIds : tasks[i].pc = "done"

\* The endpoint one rotation selects with the endpoints as they are.
SingleRotation == FindBestRpc(RPC_ENDPOINTS, TestAll(Reachable)).url

\* C21: whatever the interleaving of the gathered calls that counted
\* failures and rotated, with some endpoint reachable, once all of them have
\* returned the active endpoint is the one a single rotation selects.
C21_RedundantRotationsIdempotent ==
    (AllReturned /\ rotated /\ Reachable # {}) => current_rpc = SingleRotation

\* All calls have returned after a failure threshold cleared the active
\* endpoint while another call's rotation was in flight, and a failure was
\* counted without an active endpoint.
C21_Witness ==
    /\ AllReturned /\ rotated /\ Reachable # {}
    /\ orphan_failures > 0
    /\ current_rpc = SingleRotation
    /\ Len(tasks) = MaxTasks
    /\ \A i \in TaskIds : tasks[i].attempt = 1 /\ tasks[i].ret = "result"

(***************************************************************************)
(* Properties of the maintenance tasks (SpecUnknown, SpecRetry)            *)
(***************************************************************************)

\* update_unknown_types ran last.
UnknownUpdated == last_maint # << >> /\ last_maint.op = "update_unknown_types"

\* The unknown rows update_unknown_types left out.
LeftOut == UnknownIn(last_maint.before) \ last_maint.selected

\* C22 as stated: update_unknown_types(limit) re-classifies at most limit
\* addresses, all of type unknown, the smallest last_activity_block first.
C22_Original ==
    UnknownUpdated =>
       /\ DOMAIN last_maint.address_types = last_maint.selected
       /\ Cardinality(last_maint.selected) <= last_maint.limit
       /\ last_maint.selected \subseteq UnknownIn(last_maint.before)
       /\ \A a \in last_maint.selected, b \in LeftOut :
             last_maint.before[a].last_activity_block
                <= last_maint.before[b].last_activity_block

\* C22, amended: update_unknown_types(limit) re-classifies at most limit
\* addresses, all of type unknown, the largest last_activity_block first,
\* and leaves an unknown row out only when limit rows are taken.
C22_NewestUnknownFirst ==
    UnknownUpdated =>
       /\ DOMAIN last_maint.address_types = last_maint.selected
       /\ Cardinality(last_maint.selected) <= last_maint.limit
       /\ last_maint.selected \subseteq UnknownIn(last_maint.before)
       /\ LeftOut # {} => Cardinality(last_maint.selected) = last_maint.limit
       /\ \A a \in last_maint.selected, b \in LeftOut :
             last_maint.before[a].last_activity_block
                >= last_maint.before[b].last_activity_block

\* update_unknown_types took the newer unknown rows and left an older one.
C22_Witness ==
    /\ UnknownUpdated
    /\ \E a \in last_maint.selected, b \in LeftOut :
          last_maint.before[a].last_activity_block
             > last_maint.before[b].last_activity_block
    /\ \E a \in last_maint.selected : wallets[a].address_type = "contract"

\* retry_failed_token ran last.
Retried == last_maint # << >> /\ last_maint.op = "retry_failed_token"

\* C23: retry_failed_tokens probes only tokens of status failed whose
\* last_retry is absent or at least an hour old; a probe that fails again
\* sets last_retry to the time of the probe, and no probe of a token comes
\* within the hour after its previous one; a probe that succeeds leaves the
\* token with status detected.
C23_RetryGate ==
    Retried =>
       /\ last_maint.row.status = "failed"
       /\ \/ last_maint.row.last_retry = NoTime
          \/ last_maint.at - last_maint.row.last_retry >= RETRY_DELAY
       /\ last_maint.previous # NoTime => last_maint.at - last_maint.previous >= RETRY_DELAY
       /\ last_maint.outcome = "none" =>
             /\ tokens[last_maint.address].status = "failed"
             /\ tokens[last_maint.address].last_retry = last_maint.at
       /\ last_maint.outcome = "token_data" =>
             tokens[last_maint.address].status = "detected"

\* A token that failed a first retry is probed again later and detected.
C23_Witness ==
    /\ Retried
    /\ last_maint.previous # NoTime
    /\ last_maint.row.last_retry = last_maint.previous
    /\ last_maint.outcome = "token_data"
    /\ tokens[last_maint.address].status = "detected"

(***************************************************************************)
(* Properties of the wallet scanner (SpecLookup, SpecScan)                 *)
(***************************************************************************)

\* The k-th balanceOf call of the lookup would time out or raise.
LookupFails(k) == lookup.answers[k] \in {"timeout", "exception"}

\* The lookups a get_single_balance that re-attempts failures makes: up to
\* the first that does not fail, RETRY_ATTEMPTS when all fail.
AttemptsDue ==
    IF \A k \in 1..RETRY_ATTEMPTS : LookupFails(k) THEN RETRY_ATTEMPTS
    ELSE CHOOSE k \in 1..RETRY_ATTEMPTS :
            ~LookupFails(k) /\ \A j \in 1..(k - 1) : LookupFails(j)

\* C25 as stated: a balance lookup that times out or fails is made again, up
\* to retry_attempts lookups in all, and only then is the token unreadable.
C25_Original ==
    (lookup # << >> /\ lookup.result # << >>) =>
       /\ lookup.result.attempts = AttemptsDue
       /\ lookup.result.balance = None => \A k \in 1..RETRY_ATTEMPTS : LookupFails(k)

\* A turn of the scan's loop was the last step.
BatchScanned == last_scan # << >> /\ last_scan.op = "batch"

\* The rows of a wallet in a wallet_tokens table.
HoldingsIn(table, w) == IF w \in DOMAIN table THEN table[w] ELSE << >>

\* The places in the last batch of the wallets whose scan ended in a
\* timeout or an exception.
FailedScans == { k \in DOMAIN last_scan.batch_wallets : last_scan.events[k] # "ok" }

\* C24 as stated: after the scan of a wallet its stored holdings are exactly
\* the non-zero balances that scan found, also when it found none.
C24_Original ==
    BatchScanned =>
       \A k \in DOMAIN last_scan.batch_wallets \ FailedScans :
          HoldingsIn(holdings, last_scan.batch_wallets[k]) = last_scan.found[k]

\* C26 as stated: the status is running while the scan runs, completed
\* after it returned and interrupted or error after an abort; the scanned
\* count is set after every batch, does not decrease, never exceeds the
\* total and is the total once the status is completed.
C26_Original ==
    /\ scan.pc = "running" => scan_progress.status = "running"
    /\ scan.pc = "returned" =>
          /\ scan_progress.status = "completed"
          /\ scan_progress.scanned_wallets = scan_progress.total_wallets
    /\ scan.pc = "aborted" => scan_progress.status \in {"interrupted", "error"}
    /\ scan_progress.scanned_wallets <= scan_progress.total_wallets
    /\ BatchScanned =>
          /\ scan_progress.scanned_wallets >= last_scan.progress_before.scanned_wallets
          /\ scan_progress.scanned_wallets = scan.wallets_scanned

\* C27: a timeout or an exception in the scan of one wallet is counted as
\* an error and writes no holdings for that wallet; the holdings found for
\* the other wallets of the batch are written, the loop goes on, and a scan
\* that returned has gone through all the wallets, whatever the errors.
C27_WalletFailureIsolated ==
    /\ BatchScanned =>
          /\ \A k \in FailedScans :
                HoldingsIn(holdings, last_scan.batch_wallets[k])
                   = HoldingsIn(last_scan.before, last_scan.batch_wallets[k])
          /\ scan.errors = last_scan.errors_before + Cardinality(FailedScans)
          /\ \A k \in DOMAIN last_scan.batch_wallets \ FailedScans :
                last_scan.found[k] # << >> =>
                   HoldingsIn(holdings, last_scan.batch_wallets[k]) = last_scan.found[k]
          /\ scan.pc = "running"
    /\ (scan.pc = "returned" /\ scan.errors > 0) =>
          /\ scan.wallets_scanned = Len(scan.all_wallets)
          /\ scan_progress.status = "completed"

\* In one batch the scan of a wallet with old holdings timed out and the
\* scan of the other wallet found a balance, which was written.
C27_Witness ==
    /\ BatchScanned
    /\ Len(last_scan.batch_wallets) = SCAN_BATCH_SIZE
    /\ last_scan.events[1] = "timeout"
    /\ last_scan.events[2] = "ok"
    /\ last_scan.found[2] # << >>
    /\ HoldingsIn(last_scan.before, last_scan.batch_wallets[1]) # << >>
    /\ HoldingsIn(last_scan.before, last_scan.batch_wallets[2]) = << >>
    /\ HoldingsIn(holdings, last_scan.batch_wallets[2]) = last_scan.found[2]

(***************************************************************************)
(* Properties of the activity slots (SpecActivity)                         *)
(***************************************************************************)

\* The blocks of the last batch that were fetched and have participants.
ObservedBlocks ==
    { b \in UsableBlocks(last_activity.data, last_activity.start) :
        TxAddresses(Transactions(b)) # {} }

\* The slots the last batch touched.
TouchedSlots == { TimeSlotKey(Timestamp(b)) : b \in ObservedBlocks }

\* The observed blocks of a slot.
ObservedIn(k) == { b \in ObservedBlocks : TimeSlotKey(Timestamp(b)) = k }

\* C28: after the slots of a batch are saved, each slot the batch touched
\* holds the number of distinct addresses and the number of transactions of
\* the batch's blocks in it, whatever it held, and every other slot holds
\* what it held.
C28_SlotsReplaced ==
    last_activity # << >> =>
       /\ DOMAIN activity = DOMAIN last_activity.before \cup TouchedSlots
       /\ \A k \in TouchedSlots :
             /\ activity[k].active_wallets
                   = Cardinality(UNION { TxAddresses(Transactions(b)) : b \in ObservedIn(k) })
             /\ activity[k].total_transactions = TxCount(ObservedIn(k))
       /\ \A k \in DOMAIN last_activity.before \ TouchedSlots :
             activity[k] = last_activity.before[k]

\* A batch touched a slot that held a row and left another stored slot
\* alone.
C28_Witness ==
    /\ last_activity # << >>
    /\ \E k \in TouchedSlots :
          /\ k \in DOMAIN last_activity.before
          /\ activity[k] # last_activity.before[k]
          /\ Cardinality(ObservedIn(k)) = BATCH_SIZE
    /\ \E k \in DOMAIN last_activity.before \ TouchedSlots :
          activity[k] = OldActivityRow

(***************************************************************************)
(* Properties of the monitoring cycle (SpecCycle)                          *)
(***************************************************************************)

\* The cycle has run to the end of monitoring_cycle's body (the counter,
\* the maintenance when due, the periodic test, "return True").
CycleCompleted == cycle.pc = "sleep" /\ cycle.ret /\ cycle.counted

\* C29: the two maintenance tasks run once every UPDATE_UNKNOWN_INTERVAL
\* completed cycles.  They are started only in a cycle that has counted
\* itself and found the counter at the interval or above; once they have
\* returned the counter is 0; and a completed cycle is one in which they
\* have returned exactly when it is the UPDATE_UNKNOWN_INTERVAL-th completed
\* cycle since they last returned (or since the start).
C29_MaintenanceEveryInterval ==
    /\ cycle.maint # "none" =>
           cycle.counted /\ cycle.counter >= UPDATE_UNKNOWN_INTERVAL
    /\ cycle.maint = "returned" => update_counter = 0
    /\ CycleCompleted =>
           (cycle.maint = "returned" <=> cycle.nth = UPDATE_UNKNOWN_INTERVAL)

\* A completed cycle in which the maintenance has run and returned.
C29_Witness ==
    /\ CycleCompleted
    /\ cycle.maint = "returned"
    /\ cycle.nth = UPDATE_UNKNOWN_INTERVAL
    /\ update_counter = 0

\* C30: a cycle that began with the last endpoint test older than the
\* retest interval has tested the endpoints by the time it ends, whether or
\* not the head fetch gave a head and whether or not blocks were processed.
C30_Original ==
    (cycle.pc = "sleep" /\ cycle.stale) => cycle.tested

(***************************************************************************)
(* Properties of the detection layer (SpecDetect)                          *)
(***************************************************************************)

\* The "from" and "to" fields of the block's transactions that are not null.
Participants(txs) ==
    { txs[i].from : i \in { j \in 1..Len(txs) : txs[j].from # NoAddress } }
      \cup { txs[i].to : i \in { j \in 1..Len(txs) : txs[j].to # NoAddress } }

Extracted == job # << >> /\ job.op = "extract" /\ job.block.kind = "block" /\ given # << >>

\* C31: extract_addresses_from_block returns the lower-cased spelling of
\* every non-null from and to of the block's transactions and nothing else,
\* with the number of transactions, those without a "to" included.
C31_ExtractAddresses ==
    Extracted =>
       /\ \A a \in Participants(job.block.transactions) :
              [a EXCEPT !.mixed_case = FALSE] \in given.addresses
       /\ \A a \in given.addresses :
              /\ ~a.mixed_case
              /\ \E b \in Participants(job.block.transactions) : b.account = a.account
       /\ given.tx_count = Len(job.block.transactions)

\* The block [{from: A, to: B}, {from: C, to: null}] gave {a, b, c} and 2.
C31_Witness ==
    /\ Extracted
    /\ job.block.transactions = << [from |-> Address(1, TRUE), to |-> Address(2, TRUE)],
                                    [from |-> Address(3, TRUE), to |-> NoAddress] >>
    /\ given.addresses = { Address(1, FALSE), Address(2, FALSE), Address(3, FALSE) }
    /\ given.tx_count = 2

Probed == job # << >> /\ job.op = "probe" /\ given # << >>

\* The functions whose eth_call gave nothing: None, an empty result, "0x",
\* or an exception.
EmptyAnswers ==
    { f \in DOMAIN job.answers : job.answers[f] \in {None, "", "0x", "raised"} }

\* C32: check_if_token returns token data only when each of name, symbol,
\* decimals and totalSupply returned a non-empty result; with one of them
\* empty or failed it returns None whatever the other three returned.
C32_AllFourOrNone ==
    Probed =>
       /\ EmptyAnswers # {} => given.token_data = << >>
       /\ given.token_data # << >> =>
              /\ EmptyAnswers = {}
              /\ DOMAIN given.token_data = {"name", "symbol", "decimals", "totalSupply"}

\* name, symbol and decimals answered, totalSupply answered "0x": None.
C32_Witness ==
    /\ Probed
    /\ job.answers = [name |-> "string", symbol |-> "string", decimals |-> "word",
                       totalSupply |-> "0x"]
    /\ given.token_data = << >>
    /\ given.calls = 4

Detected == job # << >> /\ job.op = "detect" /\ given # << >>

\* The contracts of the batch that check_if_token takes for tokens.
ProbedPositive ==
    { a \in job.contract_addresses : CheckIfToken(job.answers[a]).token_data # << >> }

\* C33: detect_tokens_batch returns an entry for exactly the contracts it
\* was given whose check_if_token gave token data, each entry with a
\* creator; get_contract_creator is called for those contracts only.
C33_ExactlyTheTokens ==
    Detected =>
       /\ DOMAIN given.tokens_found = ProbedPositive
       /\ \A a \in DOMAIN given.tokens_found :
              /\ "creator" \in DOMAIN given.tokens_found[a]
              /\ given.tokens_found[a].creator
                    = IF job.creators[a] = None THEN "Unknown" ELSE job.creators[a]
       /\ given.creator_calls = ProbedPositive

\* A batch of a token and of a contract that is none: one entry.
C33_Witness ==
    /\ Detected
    /\ job.contract_addresses = { Address(1, FALSE), Address(2, FALSE) }
    /\ job.answers[Address(1, FALSE)] = AnswersOfToken
    /\ job.answers[Address(2, FALSE)] # AnswersOfToken
    /\ DOMAIN given.tokens_found = { Address(1, FALSE) }
    /\ given.creator_calls = { Address(1, FALSE) }

(***************************************************************************)
(* Properties of the failure accounting (SpecCall, SpecRpc, SpecConc)      *)
(***************************************************************************)

\* C34: a transport failure forces a full test of the endpoints only when
\* it took the endpoint's failure count to RPC_MAX_FAILURES (the active
\* endpoint is then cleared); below that the call goes on to its retry on
\* the endpoint it has, without a test.
C34_Original ==
    call.pc = "rotate" => current_rpc = None

\* C35: the failure count of an endpoint is the number of requests sent to
\* it that failed in a row since the last one it answered, and when rpc_call
\* returns a result the count of the endpoint that answered is zero.
C35_SuccessResets ==
    /\ \A u \in Urls : rpc_failures[u] = streak[u]
    /\ (call.pc = "done" /\ call.ret) =>
           (current_rpc # None /\ rpc_failures[current_rpc] = 0)

\* C35 witness: the first request of the call failed and was counted, the
\* second was answered, and no endpoint is left with a failure counted.
C35_Witness ==
    /\ call.pc = "done"
    /\ call.ret
    /\ \E k \in 1..Len(call_log) : call_log[k] = "post_exception"
    /\ call_log[Len(call_log)] = "post_ok"
    /\ \A u \in Urls : rpc_failures[u] = 0

(***************************************************************************)
(* Properties of the checkpoint row (Spec)                                 *)
(***************************************************************************)

C36_SwitchPersisted ==
    /\ current_rpc # None =>
           (checkpoint.row /\ checkpoint.current_rpc_url = current_rpc)
    /\ pc = "ensure" => current_rpc = GetCheckpoint(checkpoint)[2]

\* C36 witness: the monitor was restarted after a rotation had moved the
\* active endpoint away from the first endpoint of the list, and
\* initialize() has restored the endpoint saved last.
C36_Witness ==
    /\ resumed
    /\ pc = "ensure"
    /\ current_rpc # None
    /\ current_rpc # RPC_ENDPOINTS[1].url

(***************************************************************************)
(* Properties of the stored types (SpecBatch)                              *)
(***************************************************************************)

\* C37: an address that was stored as wallet or contract when a batch began
\* is not stored as unknown when the batch has returned.
C37_Original ==
    BatchDone =>
        \A a \in last_batch.known : wallets[a].address_type # "unknown"

(***************************************************************************)
(* Properties of the failure accounting under a gather (SpecConc)          *)
(***************************************************************************)

\* C38: a step that raises the failure count of an endpoint, or that clears
\* it as the active endpoint, is the handling of a failed request that was
\* sent to that endpoint, and no step counts a failure for no endpoint.
C38_Original ==
    [][ /\ orphan_failures' = 0
        /\ \A u \in Urls :
              (\/ rpc_failures'[u] > rpc_failures[u]
               \/ (current_rpc = u /\ current_rpc' = None)) =>
                  \E i \in TaskIds : /\ tasks[i].pc = "posting"
                                     /\ tasks[i].url = u
                                     /\ tasks'[i].pc # "posting" ]_vars

(***************************************************************************)
(* Properties of the failure counts across rotations (SpecRpc)             *)
(***************************************************************************)

\* C40: between calls, the failure count of the active endpoint is below
\* RPC_MAX_FAILURES.
C40_Original ==
    (call.pc = "idle" /\ current_rpc # None) =>
        rpc_failures[current_rpc] < RPC_MAX_FAILURES

====
